---- MODULE Spec2Model ----
(***************************************************************************)
(* Verification model of reflow: the recipe step graph, the dict and file  *)
(* caches, the backward execution-path planner and the depth-first         *)
(* executor.                                                               *)
(***************************************************************************)
EXTENDS Integers, Sequences, FiniteSets, TLC

VARIABLES
    recipe,     \* the Recipe given to the executor: step graph and options
    cache,      \* DictCache.dict of the executor's cache
    last,       \* record of the last execute call (request, cache before, outcome)
    fdir,       \* FileCache: the files of the cache directory
    fproc,      \* FileCache: position and locals of every client process
    fhist,      \* FileCache: completed sets, per key
    ddict,      \* DictCache.dict of the stand-alone dict cache
    cres        \* outcome of the last sequential cache call

vars == <<recipe, cache, last, fdir, fproc, fhist, ddict, cres>>

execVars == <<recipe, cache, last>>
fileVars == <<fdir, fproc, fhist>>
seqVars == <<ddict, cres>>

----------------------------------------------------------------------------
(* Names and values                                                        *)

ROOT == "ROOT"
NOOP == "NOOP"

\* the number of steps of the recipes of the model
NumSteps == 3

\* the step names of the model, in the order in which they are added
AllStepNames == <<"s1", "s2", "s3", "s4", "s5">>
StepNames == SubSeq(AllStepNames, 1, NumSteps)
Steps == {StepNames[i] : i \in 1..Len(StepNames)}

\* Python's string order on the names used (sorted(), list comparison)
NameOrder == <<"NOOP", "ROOT", "a", "b", "s1", "s2", "s3", "s4", "s5", "x">>
Rank(n) == CHOOSE i \in 1..Len(NameOrder) : NameOrder[i] = n

RECURSIVE SortedSeq(_)
SortedSeq(S) ==
    IF S = {} THEN <<>>
    ELSE LET m == CHOOSE x \in S : \A y \in S : Rank(x) <= Rank(y)
         IN <<m>> \o SortedSeq(S \ {m})

Range(s) == {s[i] : i \in 1..Len(s)}

\* a local variable: F is applied to the value of e, which is computed once
Let(e, F(_)) == CHOOSE r \in {F(x) : x \in {e}} : TRUE

\* results are opaque values; an implementation's result is the term built
\* from its step, its option and the values it was called with
Val(st, op, args) == [st |-> st, op |-> op, in |-> args]
None == Val("None", "", <<>>)
Input == Val("INPUT", "", <<>>)
Func(step, option, args) == Val(step, option, args)
\* the option whose implementation raises, and the error it raises
Raising == "boom"
FuncRaises(step, option) == option = Raising
Raised(step, option) == Val("raised", step, <<Val(step, option, <<>>)>>)
\* a value that was put into the cache before the run that is looked at
Stale(step, options) ==
    Val("stale", step,
        LET steps == SortedSeq(DOMAIN options)
        IN [i \in 1..Len(steps) |-> Val(steps[i], options[steps[i]], <<>>)])

----------------------------------------------------------------------------
(* networkx.DiGraph as used by Recipe.steps: nodes in insertion order,     *)
(* predecessors and successors in edge insertion order                     *)

Predecessors(g, n) == g.pred[n]
Successors(g, n) == g.succ[n]
HasNode(g, n) == n \in Range(g.nodes)

RemoveNodesFrom(g, R) ==
    LET keep(x) == x \notin R
        nodes == SelectSeq(g.nodes, keep)
    IN [nodes |-> nodes,
        pred |-> [n \in Range(nodes) |-> SelectSeq(g.pred[n], keep)],
        succ |-> [n \in Range(nodes) |-> SelectSeq(g.succ[n], keep)]]

\* Recipe.input_steps
input_steps(g) == Successors(g, ROOT)

\* the steps without successors, ROOT left out
OutputStepsWithoutRoot(g) ==
    SelectSeq(g.nodes, LAMBDA n : n # ROOT /\ Len(g.succ[n]) = 0)

\* Recipe.output_steps
output_steps(g) == SelectSeq(g.nodes, LAMBDA n : Len(g.succ[n]) = 0)

----------------------------------------------------------------------------
(* Element patterns (utils/patterns.py) and cache participation            *)

\* an element pattern is None or a list of admitted elements
PNone == [kind |-> "none", elems |-> {}]
PList(S) == [kind |-> "list", elems |-> S]

\* parse_element_pattern(pattern, ...)(x)
parse_element_pattern(pattern, on_empty_element_list, on_none_element_pattern, x) ==
    IF pattern.kind = "none" THEN on_none_element_pattern
    ELSE IF pattern.elems = {} THEN on_empty_element_list
    ELSE x \in pattern.elems

\* CachedExecutor._cache_match
CacheMatch(step, include, exclude) ==
    /\ parse_element_pattern(include, TRUE, FALSE, step)
    /\ ~ parse_element_pattern(exclude, FALSE, FALSE, step)

----------------------------------------------------------------------------
(* Cache keys (cache/utils.py).  The formatted string                      *)
(* "step=option___s1=o1___s2=o2" is kept as its list of step=option parts. *)

\* option names that are numbers, and str() of each: the name "#1" stands
\* for the number 1, the name "1" for the string '1'
NumberNames == {"#1", "#2"}
StrOf(option) ==
    IF option = "#1" THEN "1" ELSE IF option = "#2" THEN "2" ELSE option

\* the option is formatted with its str()
format_option(step, option) == <<step, StrOf(option)>>

\* format_options(options, include_noop=False): steps sorted, NOOP dropped
format_options(options) ==
    LET steps == SelectSeq(SortedSeq(DOMAIN options),
                           LAMBDA s : options[s] # NOOP)
    IN [i \in 1..Len(steps) |-> format_option(steps[i], options[steps[i]])]

\* format_key raises KeyError when the step has no option in the assignment
format_key_raises(step, options) == step \notin DOMAIN options
format_key(step, options) ==
    <<format_option(step, options[step]), format_options(options)>>

\* parse_key(formatted_key): the step and its option are the first part
parse_key(formatted_key) == formatted_key[1]

----------------------------------------------------------------------------
(* DictCache (cache/dict_cache.py): dict maps a formatted key to           *)
(* ((step, options), item).  A call yields [raised, val, dict].            *)

Ret(raised, val, d) == [raised |-> raised, val |-> val, dict |-> d]

DictCacheSet(d, step, options, item) ==
    IF format_key_raises(step, options) THEN Ret(TRUE, None, d)
    ELSE Ret(FALSE, None,
             (format_key(step, options) :> <<<<step, options>>, item>>) @@ d)

\* "key, item = self.dict.get(formatted_key, default)": on a miss the
\* default itself is unpacked, which raises unless it is a pair
IsPair(v) == v.st = "pair" /\ Len(v.in) = 2
DictCacheGet(d, step, options, default) ==
    IF format_key_raises(step, options) THEN Ret(TRUE, None, d)
    ELSE LET fk == format_key(step, options) IN
         IF fk \in DOMAIN d THEN Ret(FALSE, d[fk][2], d)
         ELSE IF IsPair(default) THEN Ret(FALSE, default.in[2], d)
         ELSE Ret(TRUE, None, d)

DictCacheContains(d, step, options) ==
    IF format_key_raises(step, options) THEN Ret(TRUE, None, d)
    ELSE Ret(FALSE, format_key(step, options) \in DOMAIN d, d)

----------------------------------------------------------------------------
(* CachedExecutor helpers (executor/base.py); the executor's cache is a    *)
(* DictCache (default_executor)                                            *)

\* CachedExecutor._cache_get
CacheGet(d, step, options, default, include, exclude) ==
    IF CacheMatch(step, include, exclude)
    THEN DictCacheGet(d, step, options, default)
    ELSE Ret(FALSE, default, d)

\* a set that takes every step for cache-enabled
CacheSetAlways(d, step, options, item, include, exclude) ==
    DictCacheSet(d, step, options, item)

\* CachedExecutor._cache_set
CacheSet(d, step, options, item, include, exclude) ==
    IF CacheMatch(step, include, exclude)
    THEN DictCacheSet(d, step, options, item)
    ELSE Ret(FALSE, None, d)

\* CachedExecutor._cache_contains
CacheContains(d, step, options, include, exclude) ==
    IF CacheMatch(step, include, exclude)
    THEN DictCacheContains(d, step, options)
    ELSE Ret(FALSE, FALSE, d)

----------------------------------------------------------------------------
(* Execution path planner (utils/execution.py)                             *)

RECURSIVE Reverse(_)
Reverse(s) == IF s = <<>> THEN <<>> ELSE Append(Reverse(Tail(s)), Head(s))

RECURSIVE Flatten(_)
Flatten(ss) == IF ss = <<>> THEN <<>> ELSE Head(ss) \o Flatten(Tail(ss))

\* Python's order on lists of names
RECURSIVE ListLess(_, _)
ListLess(a, b) ==
    IF a = <<>> THEN b # <<>>
    ELSE IF b = <<>> THEN FALSE
    ELSE IF a[1] = b[1] THEN ListLess(Tail(a), Tail(b))
    ELSE Rank(a[1]) < Rank(b[1])

\* sorted(layer)
RECURSIVE SortedLists(_)
SortedLists(S) ==
    IF S = {} THEN <<>>
    ELSE LET m == CHOOSE x \in S : \A y \in S \ {x} : ListLess(x, y)
         IN <<m>> \o SortedLists(S \ {m})

\* the sequence built for a ready step: the step, then its predecessors as
\* long as the step has one predecessor and that one has one successor
RECURSIVE LazySequence(_, _)
LazySequence(dag, step) ==
    LET predecessors == Predecessors(dag, step) IN
    IF Len(predecessors) = 1 /\ Len(Successors(dag, predecessors[1])) = 1
    THEN <<step>> \o LazySequence(dag, predecessors[1])
    ELSE <<step>>

\* the while loop of execution_path_lazy.  dag.predecessors raises for a
\* node that is not in dag; a pass that places nothing repeats forever.
RECURSIVE LazyLoop(_, _, _, _)
LazyLoop(dag, execution_layers, steps_in_layers, waitlist) ==
    IF ~ (Cardinality(steps_in_layers) < Len(dag.nodes))
    THEN [status |-> "ok", layers |-> execution_layers]
    ELSE
      Let({q[Len(q)] : q \in Range(execution_layers[Len(execution_layers)])},
          LAMBDA ends :
      IF \E n \in ends : ~ HasNode(dag, n)
      THEN [status |-> "raise", layers |-> execution_layers]
      ELSE
        Let({s \in UNION {Range(Predecessors(dag, n)) : n \in ends} \cup waitlist :
                s \notin steps_in_layers},
            LAMBDA todo :
        Let({s \in todo :
                \A c \in Range(Successors(dag, s)) : c \in steps_in_layers},
            LAMBDA ready :
        IF ready = {}
        THEN [status |-> "hang", layers |-> execution_layers]
        ELSE Let({LazySequence(dag, s) : s \in ready}, LAMBDA layer :
             LazyLoop(dag,
                      Append(execution_layers, SortedLists(layer)),
                      steps_in_layers \cup UNION {Range(q) : q \in layer},
                      (waitlist \cup todo) \ ready)))))

\* execution_path_lazy(recipe), for the step graph g of the recipe
execution_path_lazy(g) ==
    Let(output_steps(g), LAMBDA outs :
    Let(LazyLoop(RemoveNodesFrom(g, {ROOT}),
                 <<[i \in 1..Len(outs) |-> <<outs[i]>>]>>, Range(outs), {}),
        LAMBDA r :
    Let(Reverse(r.layers), LAMBDA back :
    [status |-> r.status,
     layers |-> [i \in 1..Len(back) |->
                   [j \in 1..Len(back[i]) |-> Reverse(back[i][j])]]])))

----------------------------------------------------------------------------
(* SimpleDepthFirstExecutor._execute_instance (executor/depthfirst.py)     *)
(* c = [g, options, include, exclude]: the step graph of the recipe, the   *)
(* assignment and the cache patterns of the call                           *)

\* the for loop over the candidates of one level
RECURSIVE ScanCandidates(_, _, _, _, _)
ScanCandidates(c, d, candidates, steps_to_execute, new_candidates) ==
    IF candidates = <<>>
    THEN [raised |-> FALSE, ste |-> steps_to_execute, newc |-> new_candidates]
    ELSE IF Head(candidates) \in steps_to_execute
    THEN ScanCandidates(c, d, Tail(candidates), steps_to_execute, new_candidates)
    ELSE
      Let(CacheContains(d, Head(candidates), c.options, c.include, c.exclude),
          LAMBDA hit :
      IF hit.raised
      THEN [raised |-> TRUE, ste |-> steps_to_execute, newc |-> new_candidates]
      ELSE IF hit.val
      THEN ScanCandidates(c, d, Tail(candidates), steps_to_execute, new_candidates)
      ELSE IF ~ HasNode(c.g, Head(candidates))
      THEN [raised |-> TRUE, ste |-> steps_to_execute, newc |-> new_candidates]
      ELSE ScanCandidates(c, d, Tail(candidates),
                          steps_to_execute \cup {Head(candidates)},
                          new_candidates \o Predecessors(c.g, Head(candidates))))

\* while len(candidates) > 0
RECURSIVE ScanLevels(_, _, _, _)
ScanLevels(c, d, candidates, steps_to_execute) ==
    IF candidates = <<>> THEN [raised |-> FALSE, ste |-> steps_to_execute]
    ELSE Let(ScanCandidates(c, d, candidates, steps_to_execute, <<>>), LAMBDA r :
         IF r.raised THEN [raised |-> TRUE, ste |-> r.ste]
         ELSE ScanLevels(c, d, r.newc, r.ste))

\* for step in output_steps
RECURSIVE StepsToExecute(_, _, _, _)
StepsToExecute(c, d, output, steps_to_execute) ==
    IF output = <<>> THEN [raised |-> FALSE, ste |-> steps_to_execute]
    ELSE Let(ScanLevels(c, d, <<Head(output)>>, steps_to_execute), LAMBDA r :
         IF r.raised THEN r
         ELSE StepsToExecute(c, d, Tail(output), r.ste))

Event(ev, step, val) == [ev |-> ev, step |-> step, val |-> val]

\* the input of a step from one of its predecessors
StepInput(c, st, input_step) ==
    IF input_step = ROOT THEN Ret(FALSE, Input, st.cache)
    ELSE IF input_step \in DOMAIN st.results
    THEN Ret(FALSE, st.results[input_step], st.cache)
    ELSE CacheGet(st.cache, input_step, c.options, None, c.include, c.exclude)

\* "clean up results": the loop over the input steps after the invocation
RECURSIVE CleanUpResults(_, _, _, _)
CleanUpResults(fg, step, input_list, st) ==
    IF input_list = <<>> \/ st.raised THEN st
    ELSE IF Head(input_list) = ROOT \/ ~ HasNode(fg, Head(input_list))
    THEN CleanUpResults(fg, step, Tail(input_list), st)
    ELSE
      Let(Head(input_list), LAMBDA input_step :
      Let([st EXCEPT !.consumed[input_step] = @ \cup {step}], LAMBDA st1 :
      IF Cardinality(st1.consumed[input_step]) # Len(Successors(fg, input_step))
      THEN CleanUpResults(fg, step, Tail(input_list), st1)
      ELSE IF input_step \notin DOMAIN st.results
      THEN [st1 EXCEPT !.raised = TRUE,
                       !.trace = Append(st.trace,
                                        Event("evict failed", input_step, None))]
      ELSE CleanUpResults(fg, step, Tail(input_list),
               [st1 EXCEPT
                  !.results = [x \in DOMAIN st.results \ {input_step} |->
                                  st.results[x]],
                  !.trace = Append(st.trace, Event("evict", input_step, None))])))

\* one pass that goes on with None when the implementation raises
RunStepSwallowing(c, fg, step, st) ==
    Let(Predecessors(c.g, step), LAMBDA input_list :
    Let([i \in 1..Len(input_list) |-> StepInput(c, st, input_list[i])], LAMBDA ins :
    IF \E i \in 1..Len(input_list) : ins[i].raised
    THEN [st EXCEPT !.raised = TRUE]
    ELSE
      Let(IF FuncRaises(step, c.options[step]) THEN None
          ELSE Func(step, c.options[step], [i \in 1..Len(input_list) |-> ins[i].val]),
          LAMBDA result :
      CleanUpResults(fg, step, input_list,
          [st EXCEPT !.results = (step :> result) @@ st.results,
                     !.trace = Append(st.trace,
                                  Event(IF FuncRaises(step, c.options[step])
                                        THEN "raise" ELSE "invoke", step, result)),
                     !.cache = CacheSet(st.cache, step, c.options, result,
                                        c.include, c.exclude).dict]))))

\* one pass of "for step in execution_path"; an error of the implementation
\* leaves the loop before the result is stored
RunStep(c, fg, step, st) ==
    Let(Predecessors(c.g, step), LAMBDA input_list :
    Let([i \in 1..Len(input_list) |-> StepInput(c, st, input_list[i])], LAMBDA ins :
    IF \E i \in 1..Len(input_list) : ins[i].raised
    THEN [st EXCEPT !.raised = TRUE]
    ELSE IF FuncRaises(step, c.options[step])
    THEN [st EXCEPT !.raised = TRUE,
                    !.trace = Append(st.trace,
                                 Event("raise", step, Raised(step, c.options[step])))]
    ELSE
      Let(Func(step, c.options[step], [i \in 1..Len(input_list) |-> ins[i].val]),
          LAMBDA result :
      CleanUpResults(fg, step, input_list,
          [st EXCEPT !.results = (step :> result) @@ st.results,
                     !.trace = Append(st.trace, Event("invoke", step, result)),
                     !.cache = CacheSet(st.cache, step, c.options, result,
                                        c.include, c.exclude).dict]))))

RECURSIVE RunSteps(_, _, _, _)
RunSteps(c, fg, execution_path, st) ==
    IF execution_path = <<>> \/ st.raised THEN st
    ELSE RunSteps(c, fg, Tail(execution_path),
                  RunStep(c, fg, Head(execution_path), st))

\* the result of a requested output step
OutputOf(c, st, step) ==
    IF step \in DOMAIN st.results THEN Ret(FALSE, st.results[step], st.cache)
    ELSE CacheGet(st.cache, step, c.options, None, c.include, c.exclude)

\* what _execute_instance leaves when it raises
Failed(status, ste, path, trace, d) ==
    [status |-> status, ste |-> ste, path |-> path, trace |-> trace,
     output |-> <<>>, cache |-> d]

\* _execute_instance(options, recipe, input, output_steps, cache_include,
\* cache_exclude) on the cache d: what it returns or that it raised, the
\* steps it planned, its invocations and evictions, and the cache afterwards
ExecuteInstance(options, g, output, include, exclude, d) ==
    Let([g |-> g, options |-> options, include |-> include, exclude |-> exclude],
        LAMBDA c :
    Let(StepsToExecute(c, d, output, {ROOT}), LAMBDA need :
    IF need.raised THEN Failed("raise", need.ste, <<>>, <<>>, d)
    ELSE
      Let(RemoveNodesFrom(g, Range(g.nodes) \ need.ste), LAMBDA fg :
      Let(execution_path_lazy(fg), LAMBDA plan :
      IF plan.status # "ok" THEN Failed(plan.status, need.ste, <<>>, <<>>, d)
      ELSE
        Let(SelectSeq(Flatten(Flatten(plan.layers)), LAMBDA x : x # ROOT),
            LAMBDA execution_path :
        Let(RunSteps(c, fg, execution_path,
                     [raised |-> FALSE, results |-> <<>>, cache |-> d,
                      consumed |-> [n \in Range(fg.nodes) |-> {}],
                      trace |-> <<>>]),
            LAMBDA st :
        IF st.raised
        THEN Failed("raise", need.ste, execution_path, st.trace, st.cache)
        ELSE
          Let([s \in Range(output) |-> OutputOf(c, st, s)], LAMBDA outs :
          IF \E s \in Range(output) : outs[s].raised
          THEN Failed("raise", need.ste, execution_path, st.trace, st.cache)
          ELSE [status |-> "ok", ste |-> need.ste, path |-> execution_path,
                trace |-> st.trace,
                output |-> [s \in Range(output) |-> outs[s].val],
                cache |-> st.cache])))))))

----------------------------------------------------------------------------
(* Step-option patterns (utils/patterns.py).  A pattern list is None or a  *)
(* list of dicts; a dict maps some steps to element patterns.              *)

SNone == [kind |-> "none", dicts |-> <<>>]
SList(dicts) == [kind |-> "list", dicts |-> dicts]

\* the keyword arguments of parse_step_option_pattern_list
Flags(nl, el, no, ms, eel, nep) ==
    [on_none_list |-> nl, on_empty_list |-> el, on_none_option |-> no,
     on_missing_step |-> ms, on_empty_element_list |-> eel,
     on_none_element_pattern |-> nep]

\* parse_step_option_pattern(pattern_dict, ...)(step, option)
parse_step_option_pattern(pattern_dict, f, step, option) ==
    IF step \notin DOMAIN pattern_dict THEN f.on_missing_step
    ELSE parse_element_pattern(pattern_dict[step], f.on_empty_element_list,
                               f.on_none_element_pattern, option)

\* parse_step_option_pattern_list(patterns, mode="any", ...)(step, option)
parse_step_option_pattern_list(patterns, f, step, option) ==
    IF patterns.kind = "none" THEN f.on_none_list
    ELSE IF Len(patterns.dicts) = 0 THEN f.on_empty_list
    ELSE \E i \in 1..Len(patterns.dicts) :
            parse_step_option_pattern(patterns.dicts[i], f, step, option)

----------------------------------------------------------------------------
(* Recipe filtering and expansion (utils/utils.py).  A recipe is           *)
(* [g, options]: the step graph and every step's option names in order.    *)

\* nx.ancestors(g, n)
RECURSIVE AncestorsFrom(_, _, _)
AncestorsFrom(g, frontier, seen) ==
    LET new == UNION {Range(Predecessors(g, n)) : n \in frontier} \ seen IN
    IF new = {} THEN seen ELSE AncestorsFrom(g, new, seen \cup new)
\* every other node instead of the ancestors
AllOtherNodes(g, n) == Range(g.nodes) \ {n}

Ancestors(g, n) == AncestorsFrom(g, {n}, {})

\* DiGraph.add_edges_from: a new edge goes to the end of both adjacency lists
AddEdge(g, e) ==
    IF e[2] \in Range(g.succ[e[1]]) THEN g
    ELSE [g EXCEPT !.succ[e[1]] = Append(@, e[2]),
                   !.pred[e[2]] = Append(@, e[1])]
RECURSIVE AddEdgesFrom(_, _)
AddEdgesFrom(g, edges) ==
    IF edges = <<>> THEN g ELSE AddEdgesFrom(AddEdge(g, Head(edges)), Tail(edges))

FilterIncludeFlags == Flags(TRUE, TRUE, TRUE, TRUE, TRUE, FALSE)
FilterExcludeFlags == Flags(FALSE, FALSE, FALSE, FALSE, FALSE, FALSE)

\* "drop steps without options": predecessors and successors are iterators,
\* so the successors are paired with the first predecessor only
RECURSIVE SpliceEdges(_, _, _)
SpliceEdges(g, options, steps) ==
    IF steps = <<>> THEN g
    ELSE IF Head(steps) # ROOT /\ Len(options[Head(steps)]) = 0
    THEN Let(Predecessors(g, Head(steps)), LAMBDA predecessors :
         Let(Successors(g, Head(steps)), LAMBDA successors :
         SpliceEdges(AddEdgesFrom(g, IF Len(predecessors) = 0 THEN <<>>
                                     ELSE [i \in 1..Len(successors) |->
                                             <<predecessors[1], successors[i]>>]),
                     options, Tail(steps))))
    ELSE SpliceEdges(g, options, Tail(steps))

\* filter_recipe(recipe, output, include, exclude, on_purge_step); output is
\* the list of requested steps (None is given as recipe.output_steps())
filter_recipe(r, output, include, exclude, on_purge_step) ==
    IF on_purge_step \notin {"raise", "warn", "ignore"}
    THEN [raised |-> TRUE, recipe |-> r]
    ELSE IF \E s \in Range(output) : ~ HasNode(r.g, s)
    THEN [raised |-> TRUE, recipe |-> r]
    ELSE
      Let(Range(output) \cup {ROOT}
              \cup UNION {Ancestors(r.g, s) : s \in Range(output)},
          LAMBDA steps :
      Let(RemoveNodesFrom(r.g, Range(r.g.nodes) \ steps), LAMBDA g1 :
      Let([s \in Range(g1.nodes) \ {ROOT} |->
              SelectSeq(r.options[s], LAMBDA o :
                  /\ parse_step_option_pattern_list(include, FilterIncludeFlags, s, o)
                  /\ ~ parse_step_option_pattern_list(exclude, FilterExcludeFlags, s, o))],
          LAMBDA new_options :
      Let({s \in DOMAIN new_options : Len(new_options[s]) = 0}, LAMBDA purged :
      IF purged # {} /\ on_purge_step = "raise"
      THEN [raised |-> TRUE, recipe |-> r]
      ELSE [raised |-> FALSE,
            recipe |-> [r EXCEPT
                          !.g = RemoveNodesFrom(
                                  SpliceEdges(g1, new_options, g1.nodes), purged),
                          !.options = [s \in DOMAIN new_options \ purged |->
                                         new_options[s]]]]))))

\* all_option_combinations: one assignment per element of the product of
\* the option lists, steps in node order, the first step varying slowest
RECURSIVE Product(_, _)
Product(steps, options) ==
    IF steps = <<>> THEN << <<>> >>
    ELSE
      Let(Product(Tail(steps), options), LAMBDA rest :
      Flatten([i \in 1..Len(options[Head(steps)]) |->
                 [j \in 1..Len(rest) |->
                    (Head(steps) :> options[Head(steps)][i]) @@ rest[j]]]))

\* np.array(list(options.keys())): numbers stay numbers and strings stay
\* strings, but a list that holds both becomes an array of strings
np_array(keys) ==
    IF Range(keys) \subseteq NumberNames \/ Range(keys) \cap NumberNames = {}
    THEN keys
    ELSE [i \in 1..Len(keys) |-> StrOf(keys[i])]

\* cartesian_product(): without any array, reshape(-1, 0) of the empty
\* array raises
all_option_combinations_raises(r) ==
    SelectSeq(r.g.nodes, LAMBDA n : n # ROOT) = <<>>

all_option_combinations(r) ==
    Product(SelectSeq(r.g.nodes, LAMBDA n : n # ROOT),
            [s \in DOMAIN r.options |-> np_array(r.options[s])])

MatchIncludeFlags == Flags(TRUE, TRUE, TRUE, TRUE, TRUE, FALSE)
MatchExcludeFlags == Flags(FALSE, FALSE, FALSE, FALSE, FALSE, FALSE)

\* match_options(options, include, exclude)
match_options(options, include, exclude) ==
    /\ \A s \in DOMAIN options :
          parse_step_option_pattern_list(include, MatchIncludeFlags, s, options[s])
    /\ ~ \E s \in DOMAIN options :
          parse_step_option_pattern_list(exclude, MatchExcludeFlags, s, options[s])

\* filtered_option_combinations(recipe, output, include, exclude): filters
\* again with on_purge_step="raise", expands, then matches each assignment
filtered_option_combinations(r, output, include, exclude) ==
    Let(filter_recipe(r, output, include, exclude, "raise"), LAMBDA f :
    IF f.raised \/ all_option_combinations_raises(f.recipe)
    THEN [raised |-> TRUE, list |-> <<>>]
    ELSE [raised |-> FALSE,
          list |-> SelectSeq(all_option_combinations(f.recipe),
                             LAMBDA o : match_options(o, include, exclude))])

----------------------------------------------------------------------------
(* SimpleDepthFirstExecutor._execute                                       *)

\* the instances in the order of options_list, on one shared cache; the
\* first instance that raises ends the call
RECURSIVE RunInstances(_, _, _, _, _, _)
RunInstances(options_list, g, output, include, exclude, acc) ==
    IF options_list = <<>> \/ acc.status # "ok" THEN acc
    ELSE
      Let(ExecuteInstance(Head(options_list), g, output, include, exclude,
                          acc.cache),
          LAMBDA res :
      RunInstances(Tail(options_list), g, output, include, exclude,
          [status |-> res.status,
           results |-> Append(acc.results, res),
           cache |-> res.cache]))

\* random.shuffle(options_list): the list in one of its orders
Shuffle(options_list, perm) ==
    [i \in 1..Len(options_list) |-> options_list[perm[i]]]
Shuffles(n) == {p \in [1..n -> 1..n] : \A i, j \in 1..n : p[i] = p[j] => i = j}

\* results in completion order instead of dispatch order
ZipResultsUnordered(options_list, results) ==
    [i \in 1..Len(options_list) |->
        <<options_list[i], results[Len(results) + 1 - i].output>>]

\* list(zip(options_list, results)): Parallel returns the results in the
\* order of the dispatched assignments
ZipResults(options_list, results) ==
    [i \in 1..Len(options_list) |-> <<options_list[i], results[i].output>>]

\* _execute(recipe, input, output, options_include, options_exclude,
\* cache_include, cache_exclude, on_purge_step) on the cache d, with the
\* order perm that random.shuffle gives options_list
Execute(r, output, options_include, options_exclude, cache_include, cache_exclude, on_purge_step, perm, d) ==
    Let(filter_recipe(r, output, options_include, options_exclude, on_purge_step),
        LAMBDA fr :
    IF fr.raised
    THEN [status |-> "raise", pairs |-> <<>>, runs |-> <<>>, cache |-> d]
    ELSE
      Let(filtered_option_combinations(fr.recipe, output, options_include,
                                       options_exclude),
          LAMBDA combos :
      IF combos.raised
      THEN [status |-> "raise", pairs |-> <<>>, runs |-> <<>>, cache |-> d]
      ELSE
        Let(Shuffle(combos.list, perm), LAMBDA options_list :
        Let(RunInstances(options_list, fr.recipe.g, output, cache_include,
                         cache_exclude,
                         [status |-> "ok", results |-> <<>>, cache |-> d]),
            LAMBDA run :
        [status |-> run.status,
         pairs |-> IF run.status # "ok" THEN <<>>
                   ELSE ZipResults(options_list, run.results),
         runs |-> [i \in 1..Len(run.results) |->
                     [options |-> options_list[i], res |-> run.results[i]]],
         cache |-> run.cache]))))

\* the number of assignments a call of _execute dispatches
Dispatched(r, output, options_include, options_exclude, on_purge_step) ==
    Let(filter_recipe(r, output, options_include, options_exclude, on_purge_step),
        LAMBDA fr :
    IF fr.raised THEN 0
    ELSE Let(filtered_option_combinations(fr.recipe, output, options_include,
                                          options_exclude),
             LAMBDA combos : IF combos.raised THEN 0 ELSE Len(combos.list)))

----------------------------------------------------------------------------
(* The recipes, requests and caches of the executor model                  *)

\* bounds of the executor model
MaxParents == 2
MaxOutputs == 2

StepIndex(s) == CHOOSE i \in 1..Len(StepNames) : StepNames[i] = s

\* the step graph built by add_step(s1, ...), add_step(s2, ...), ...: every
\* step names earlier steps as parents, or none (then its parent is ROOT)
ParentChoices ==
    {par \in [Steps -> SUBSET Steps] :
        \A s \in Steps :
            /\ \A q \in par[s] : StepIndex(q) < StepIndex(s)
            /\ Cardinality(par[s]) <= MaxParents}

MkGraph(par) ==
    Let([n \in Steps \cup {ROOT} |->
            IF n = ROOT THEN <<>>
            ELSE IF par[n] = {} THEN <<ROOT>>
            ELSE SortedSeq(par[n])],
        LAMBDA pred :
    [nodes |-> <<ROOT>> \o StepNames,
     pred |-> pred,
     succ |-> [n \in Steps \cup {ROOT} |->
                 SortedSeq({s \in Steps : n \in Range(pred[s])})]])

OutputChoices ==
    {SortedSeq(O) : O \in {X \in SUBSET Steps :
                              X # {} /\ Cardinality(X) <= MaxOutputs}}

CacheIncludeChoices == {PNone} \cup {PList(S) : S \in SUBSET Steps}
CacheExcludeChoices == {PNone, PList({StepNames[1]})}

Request(output, oi, oe, ci, ce, purge) ==
    [output |-> output, options_include |-> oi, options_exclude |-> oe,
     cache_include |-> ci, cache_exclude |-> ce, on_purge_step |-> purge]

NoCall == [status |-> "none"]

\* the record of an execute call: the request, the cache before, the result
Called(req, perm, before, res) ==
    [status |-> res.status, req |-> req, perm |-> perm, before |-> before,
     pairs |-> res.pairs, runs |-> res.runs]

\* executor.execute(recipe, input, output, ...)
ExecutorExecute(req, perm) ==
    \E res \in {Execute(recipe, req.output, req.options_include,
                        req.options_exclude, req.cache_include,
                        req.cache_exclude, req.on_purge_step, perm, cache)} :
       /\ cache' = res.cache
       /\ last' = Called(req, perm, cache, res)
       /\ UNCHANGED recipe

----------------------------------------------------------------------------
(* One run of the executor on a recipe whose steps have one option each,   *)
(* against a cache that holds earlier results of any of the steps          *)

OneOption == [s \in Steps |-> "x"]

\* the cache after cache.set(s, options, Stale(s, options)) for the steps s
\* of K and the assignments options of the list
RECURSIVE StaleCache(_, _)
StaleCache(K, assignments) ==
    IF assignments = <<>> THEN <<>>
    ELSE LET options == Head(assignments)
             keys == {format_key(s, options) : s \in K \cap DOMAIN options}
         IN [fk \in keys |->
                LET s == parse_key(fk)[1] IN <<<<s, options>>, Stale(s, options)>>]
            @@ StaleCache(K, Tail(assignments))

\* the assignments of the sub-recipes that requests select
SubAssignments(options) ==
    {[s \in D |-> options[s]] : D \in SUBSET (DOMAIN options) \ {{}}}

RECURSIVE SeqOf(_)
SeqOf(S) == IF S = {} THEN <<>>
            ELSE LET x == CHOOSE y \in S : TRUE IN <<x>> \o SeqOf(S \ {x})

InitRun ==
    /\ \E par \in ParentChoices :
          recipe = [g |-> MkGraph(par), options |-> [s \in Steps |-> <<"x">>]]
    /\ \E K \in SUBSET Steps :
          cache = StaleCache(K, SeqOf(SubAssignments(OneOption)))
    /\ last = NoCall
    /\ fdir = {} /\ fproc = <<>> /\ fhist = {}
    /\ ddict = <<>> /\ cres = <<>>

RunOnce ==
    /\ last.status = "none"
    /\ \E output \in OutputChoices, ci \in CacheIncludeChoices,
          ce \in CacheExcludeChoices :
          ExecutorExecute(Request(output, SNone, SNone, ci, ce, "raise"), <<1>>)
    /\ UNCHANGED <<fileVars, seqVars>>

NextRun == RunOnce

SpecRun == InitRun /\ [][NextRun]_vars

----------------------------------------------------------------------------
(* Properties of one run (SpecRun)                                         *)

\* the single assignment's run of the last call
TheRun == last.runs[1].res
TheOptions == last.runs[1].options
Ran == last.status # "none"

InvokeEvents(res) == SelectSeq(res.trace, LAMBDA e : e.ev = "invoke")
InvokedSteps(res) == {e.step : e \in Range(InvokeEvents(res))}

\* step is cache-enabled and cached for the assignment before the call
SkippedBefore(call, options, step) ==
    /\ CacheMatch(step, call.req.cache_include, call.req.cache_exclude)
    /\ format_key(step, options) \in DOMAIN call.before

\* the least set that holds the requested steps that are not skipped and
\* the non-ROOT predecessors, not skipped, of its members
RECURSIVE MustRunFrom(_, _, _)
MustRunFrom(g, skipped, S) ==
    LET more == {p \in UNION {Range(Predecessors(g, s)) : s \in S} :
                    p # ROOT /\ p \notin skipped}
    IN IF more \subseteq S THEN S ELSE MustRunFrom(g, skipped, S \cup more)
MustRun(call, g, options) ==
    LET skipped == {s \in DOMAIN options : SkippedBefore(call, options, s)}
    IN MustRunFrom(g, skipped, Range(call.req.output) \ skipped)

\* C1: the steps whose implementation a run invokes are exactly the least
\* set S that holds every requested step that is not both cache-enabled and
\* cached, and every non-ROOT predecessor of a member that is not both
\* cache-enabled and cached
C1_InvokedIsMustRun ==
    Ran => InvokedSteps(TheRun) = MustRun(last, recipe.g, TheOptions)

\* C2: every step of the must-run set is invoked exactly once, and after
\* all of its must-run predecessors
InvokedAt(res, s) ==
    {i \in 1..Len(InvokeEvents(res)) : InvokeEvents(res)[i].step = s}
C2_OnceAndInOrder ==
    Ran =>
      LET S == MustRun(last, recipe.g, TheOptions) IN
      \A s \in S :
          /\ Cardinality(InvokedAt(TheRun, s)) = 1
          /\ \A p \in Range(Predecessors(recipe.g, s)) \cap S :
               \A i \in InvokedAt(TheRun, s) :
                  \E j \in InvokedAt(TheRun, p) : j < i

\* the value a run computed for a step it invoked
ComputedValue(res, s) ==
    InvokeEvents(res)[CHOOSE i \in InvokedAt(res, s) : TRUE].val

----------------------------------------------------------------------------
(* execute on recipes whose steps have several options, with option        *)
(* filters and shuffled dispatch (SpecAll)                                 *)

\* s1 has the options a and b, s2 one option or two, every other step one
OptionChoices ==
    {[s \in Steps |-> IF s = StepNames[1] THEN <<"a", "b">>
                      ELSE IF s = StepNames[2] THEN o2
                      ELSE <<"x">>] : o2 \in {<<"x">>, <<"a", "b">>}}

\* the step graphs in which every step has at most one parent
TreeChoices == {par \in ParentChoices : \A s \in Steps : Cardinality(par[s]) <= 1}

OptionsIncludeChoices ==
    {SNone,
     SList(<<>>),
     SList(<<(StepNames[1] :> PList({"a"}))>>),
     SList(<<(StepNames[1] :> PList({"a"})), (StepNames[2] :> PList({"b", "x"}))>>)}
OptionsExcludeChoices ==
    {SNone,
     SList(<<(StepNames[1] :> PList({"b"}))>>),
     SList(<<(StepNames[2] :> PList({"x"}))>>)}

\* every assignment of a recipe: one option per step
Assignments(options) ==
    {o \in [DOMAIN options -> UNION {Range(options[s]) : s \in DOMAIN options}] :
        \A s \in DOMAIN options : o[s] \in Range(options[s])}

InitAll ==
    /\ \E par \in TreeChoices, opts \in OptionChoices :
          /\ recipe = [g |-> MkGraph(par), options |-> opts]
          /\ cache = StaleCache({StepNames[1]},
                    SeqOf(UNION {SubAssignments(o) : o \in Assignments(opts)}))
    /\ last = NoCall
    /\ fdir = {} /\ fproc = <<>> /\ fhist = {}
    /\ ddict = <<>> /\ cres = <<>>

\* the filters of a call: every include filter alone, every exclude filter
\* with both values of on_purge_step, both filters together, and the first
\* step read from the cache
FilterChoices ==
    {<<oi, SNone, "raise", PList({})>> : oi \in OptionsIncludeChoices}
    \cup {<<SNone, oe, purge, PList({})>> :
             oe \in OptionsExcludeChoices \ {SNone}, purge \in {"raise", "ignore"}}
    \cup {<<oi, oe, "ignore", PList({})>> :
             oi \in {SList(<<(StepNames[1] :> PList({"a"}))>>)},
             oe \in {SList(<<(StepNames[2] :> PList({"x"}))>>)}}
    \cup {<<oi, SNone, "raise", PList({StepNames[1]})>> :
             oi \in {SNone, SList(<<(StepNames[1] :> PList({"a"}))>>)}}

ExecuteAll ==
    /\ last.status = "none"
    /\ \E output \in OutputChoices, f \in FilterChoices :
        \E perm \in Shuffles(Dispatched(recipe, output, f[1], f[2], f[3])) :
          ExecutorExecute(Request(output, f[1], f[2], f[4], PNone, f[3]), perm)
    /\ UNCHANGED <<fileVars, seqVars>>

NextAll == ExecuteAll

SpecAll == InitAll /\ [][NextAll]_vars

\* the assignments the request of a call selects: one option, admitted by
\* the filters, for every step the filtered recipe keeps
SelectedAssignments(call) ==
    LET fr == filter_recipe(recipe, call.req.output, call.req.options_include,
                            call.req.options_exclude, call.req.on_purge_step).recipe
    IN {o \in Assignments(fr.options) :
          match_options(o, call.req.options_include, call.req.options_exclude)}

\* a value was computed, or cached, under the assignment options
RECURSIVE UnderAssignment(_, _)
UnderAssignment(v, options) ==
    IF v = None \/ v = Input THEN TRUE
    ELSE IF v.st = "stale" THEN v.op \in DOMAIN options /\ v = Stale(v.op, options)
    ELSE /\ v.st \in DOMAIN options
         /\ v.op = options[v.st]
         /\ \A k \in 1..Len(v.in) : UnderAssignment(v.in[k], options)

----------------------------------------------------------------------------
(* FileCache (cache/file_cache.py): the cache directory is the set of its  *)
(* finished files; a file has the basename of its key, the timestamp and   *)
(* the seed of its name, and the pickled ((step, options), item)           *)

\* FileCache._hash: the md5 digest of str(obj)
Hash(obj) == <<"md5", obj>>

\* FileCache._format_basename raises KeyError when the step has no option
format_basename_raises(step, options) == step \notin DOMAIN options
format_basename(step, options) ==
    [step |-> Hash(step), option |-> Hash(StrOf(options[step])),
     options |-> Hash(format_options(options))]

\* FileCache._parse_basename: the step hash and the hash of its own option
parse_basename(base) == <<base.step, base.option>>

\* FileCache._new_file: the name of a finished file; ts is the reading of
\* time.time_ns() and seed the random letters
new_file(step, options, ts, seed) ==
    [base |-> format_basename(step, options), ts |-> ts, seed |-> seed]

NameOf(f) == [base |-> f.base, ts |-> f.ts, seed |-> f.seed]
File(name, payload) ==
    [base |-> name.base, ts |-> name.ts, seed |-> name.seed, payload |-> payload]

\* the order of sorted() on the paths of one basename: by the timestamp
\* (all readings of time_ns have the same number of digits), then the seed
NameLess(f, g) == f.ts < g.ts \/ (f.ts = g.ts /\ f.seed < g.seed)

\* out_path.glob(f"{basename}___ts-*___seed-*.pickle")
Glob(dir, base) == {NameOf(f) : f \in {g \in dir : g.base = base}}

\* next(iter(sorted(files, reverse=True)))
NewestName(names) == CHOOSE f \in names : \A g \in names : g = f \/ NameLess(g, f)

\* list(sorted(files, reverse=True))
RECURSIVE SortedReverse(_)
SortedReverse(names) ==
    IF names = {} THEN <<>>
    ELSE <<NewestName(names)>> \o SortedReverse(names \ {NewestName(names)})

\* the names _clean_up_old_files unlinks, but everything except the oldest
CleanUpKeepOldest(names) ==
    IF names = {} THEN <<>>
    ELSE SortedReverse({f \in names : \E g \in names : NameLess(g, f)})

\* list(sorted(files, reverse=True))[1:]
CleanUpList(names) ==
    IF names = {} THEN <<>> ELSE Tail(SortedReverse(names))

\* file_tmp.rename(file_done): an existing file of that name is replaced
Rename(dir, name, payload) ==
    {f \in dir : NameOf(f) # name} \cup {File(name, payload)}

\* f.unlink(missing_ok=True)
Unlink(dir, name) == {f \in dir : NameOf(f) # name}

Exists(dir, name) == \E f \in dir : NameOf(f) = name
\* pickle.load of the file of that name
Load(dir, name) == (CHOOSE f \in dir : NameOf(f) = name).payload

\* a call on the directory yields [raised, val, dir]
FRet(raised, val, dir) == [raised |-> raised, val |-> val, dir |-> dir]

PyTrue == Val("True", "", <<>>)
PyFalse == Val("False", "", <<>>)
PyBool(b) == IF b THEN PyTrue ELSE PyFalse

\* the oldest file of the key instead of the most recent
LeastRecentFile(dir, step, options) ==
    LET names == Glob(dir, format_basename(step, options))
    IN {f \in names : \A g \in names : g = f \/ NameLess(f, g)}

\* FileCache._get_most_recent_file: a name, or none
MostRecentFile(dir, step, options) ==
    LET names == Glob(dir, format_basename(step, options))
    IN IF names = {} THEN {} ELSE {NewestName(names)}

\* FileCache._clean_up_old_files
CleanUpOldFiles(dir, step, options) ==
    LET todo == CleanUpList(Glob(dir, format_basename(step, options)))
    IN {f \in dir : NameOf(f) \notin Range(todo)}

\* FileCache.set, run without interference
FileCacheSet(dir, step, options, item, cleanup, ts, seed) ==
    IF format_basename_raises(step, options) THEN FRet(TRUE, None, dir)
    ELSE LET written == Rename(dir, new_file(step, options, ts, seed),
                               <<<<step, options>>, item>>)
         IN FRet(FALSE, None,
                 IF cleanup THEN CleanUpOldFiles(written, step, options)
                 ELSE written)

\* FileCache.get, run without interference
FileCacheGet(dir, step, options, default) ==
    IF format_basename_raises(step, options) THEN FRet(TRUE, None, dir)
    ELSE LET file == MostRecentFile(dir, step, options)
         IN IF file # {} /\ \A n \in file : Exists(dir, n)
            THEN FRet(FALSE, Load(dir, CHOOSE n \in file : TRUE)[2], dir)
            ELSE FRet(FALSE, default, dir)

\* FileCache.contains
FileCacheContains(dir, step, options) ==
    IF format_basename_raises(step, options) THEN FRet(TRUE, None, dir)
    ELSE FRet(FALSE, PyBool(MostRecentFile(dir, step, options) # {}), dir)

\* delete_all without an option
NoOption == "<None>"

\* FileCache.delete_all
FileCacheDeleteAll(dir, step, option) ==
    FRet(FALSE, None,
         {f \in dir :
            \/ parse_basename(f.base)[1] # Hash(step)
            \/ option # NoOption /\ parse_basename(f.base)[2] # Hash(option)})

\* DictCache.delete_all: with an option, parse_options returns a list and
\* indexing it with the step raises TypeError before any entry is deleted
DictCacheDeleteAll(d, step, option) ==
    IF option # NoOption THEN Ret(TRUE, None, d)
    ELSE LET keep == {fk \in DOMAIN d : parse_key(fk)[1] # step}
         IN Ret(FALSE, None, [fk \in keep |-> d[fk]])

----------------------------------------------------------------------------
(* a FileCache and a DictCache that receive the same calls, one call at a  *)
(* time (SpecCache)                                                        *)

MaxOps == 3
MaxTs == 2
MaxSeed == 2

ItemNames == <<"v1", "v2", "v3", "v4", "v5", "v6">>
Item(n) == Val("item", ItemNames[n], <<>>)
Default == Val("default", "", <<>>)

\* the keys of the calls: two keys of the first step that differ in its own
\* option and in the other step's option, and one key of the second step
CacheKeys ==
    {[step |-> StepNames[1], options |-> (StepNames[1] :> "a")],
     [step |-> StepNames[1], options |-> (StepNames[1] :> "b") @@ (StepNames[2] :> "x")],
     [step |-> StepNames[2], options |-> (StepNames[1] :> "a") @@ (StepNames[2] :> "x")]}

NoCacheCall ==
    [op |-> "none", step |-> "", options |-> <<>>, item |-> None, option |-> "",
     file |-> [raised |-> FALSE, val |-> None],
     dict |-> [raised |-> FALSE, val |-> None],
     before |-> [file |-> {}, dict |-> <<>>]]

\* the record of a call: its arguments, what each cache answered, and the
\* two caches before it
CacheCall(op, step, options, item, option, fres, dres) ==
    [op |-> op, step |-> step, options |-> options, item |-> item,
     option |-> option,
     file |-> [raised |-> fres.raised, val |-> fres.val],
     dict |-> [raised |-> dres.raised, val |-> dres.val],
     before |-> [file |-> fdir, dict |-> ddict]]

\* both caches take the call; cres.written lists, for every key, the items
\* set since the last delete_all that named the key
Apply(call, fres, dres, written) ==
    /\ fdir' = fres.dir
    /\ ddict' = dres.dict
    /\ cres' = [n |-> cres.n + 1, last |-> call, written |-> written]

InitCache ==
    /\ recipe = [g |-> MkGraph([s \in Steps |-> {}]),
                 options |-> [s \in Steps |-> <<"x">>]]
    /\ cache = <<>>
    /\ last = NoCall
    /\ fdir = {} /\ fproc = <<>> /\ fhist = {}
    /\ ddict = <<>>
    /\ cres = [n |-> 0, last |-> NoCacheCall,
               written |-> [k \in CacheKeys |-> <<>>]]

\* cache.set(step, options, item): the item is new, the clock reading and
\* the seed of the file name are whatever the platform gives
CacheSetCall ==
    /\ cres.n < MaxOps
    /\ \E k \in CacheKeys, ts \in 1..MaxTs, seed \in 1..MaxSeed :
         LET item == Item(cres.n + 1)
             fres == FileCacheSet(fdir, k.step, k.options, item, TRUE, ts, seed)
             dres == DictCacheSet(ddict, k.step, k.options, item)
         IN Apply(CacheCall("set", k.step, k.options, item, "", fres, dres),
                  fres, dres,
                  [cres.written EXCEPT ![k] = Append(@, item)])
    /\ UNCHANGED <<execVars, fproc, fhist>>

\* cache.get(step, options, default)
CacheGetCall ==
    /\ cres.n < MaxOps
    /\ \E k \in CacheKeys, default \in {None, Default} :
         LET fres == FileCacheGet(fdir, k.step, k.options, default)
             dres == DictCacheGet(ddict, k.step, k.options, default)
         IN Apply(CacheCall("get", k.step, k.options, default, "", fres, dres),
                  fres, dres, cres.written)
    /\ UNCHANGED <<execVars, fproc, fhist>>

\* cache.contains(step, options)
CacheContainsCall ==
    /\ cres.n < MaxOps
    /\ \E k \in CacheKeys :
         LET fres == FileCacheContains(fdir, k.step, k.options)
             dres == LET r == DictCacheContains(ddict, k.step, k.options)
                     IN Ret(r.raised, IF r.raised THEN None ELSE PyBool(r.val), r.dict)
         IN Apply(CacheCall("contains", k.step, k.options, None, "", fres, dres),
                  fres, dres, cres.written)
    /\ UNCHANGED <<execVars, fproc, fhist>>

\* the keys delete_all(step, option) names
Named(k, step, option) ==
    k.step = step /\ (option = NoOption \/ k.options[k.step] = option)

\* cache.delete_all(step, option)
CacheDeleteAllCall ==
    /\ cres.n < MaxOps
    /\ \E step \in {StepNames[1], StepNames[2]}, option \in {NoOption, "a", "x"} :
         LET fres == FileCacheDeleteAll(fdir, step, option)
             dres == DictCacheDeleteAll(ddict, step, option)
         IN Apply(CacheCall("delete_all", step, <<>>, None, option, fres, dres),
                  fres, dres,
                  [k \in CacheKeys |->
                     IF Named(k, step, option) THEN <<>> ELSE cres.written[k]])
    /\ UNCHANGED <<execVars, fproc, fhist>>

NextCache ==
    \/ CacheSetCall
    \/ CacheGetCall
    \/ CacheContainsCall
    \/ CacheDeleteAllCall

SpecCache == InitCache /\ [][NextCache]_vars

LastKey == [step |-> cres.last.step, options |-> cres.last.options]
LastItem(k) == cres.written[k][Len(cres.written[k])]

\* C5: after two sets of one key with no delete between them, get returns
\* the second item and contains is true, in the FileCache and in the
\* DictCache, whatever timestamps the two writes got
C5_SecondWriteWins ==
    /\ cres.last.op = "get" /\ Len(cres.written[LastKey]) >= 2 =>
         /\ ~cres.last.file.raised /\ cres.last.file.val = LastItem(LastKey)
         /\ ~cres.last.dict.raised /\ cres.last.dict.val = LastItem(LastKey)
    /\ cres.last.op = "contains" /\ Len(cres.written[LastKey]) >= 2 =>
         /\ ~cres.last.file.raised /\ cres.last.file.val = PyTrue
         /\ ~cres.last.dict.raised /\ cres.last.dict.val = PyTrue

\* the entries of the two caches whose key delete_all(step, option) names
NamedFiles(dir, step, option) ==
    {f \in dir : Named([step |-> f.payload[1][1], options |-> f.payload[1][2]],
                       step, option)}
NamedKeys(d, step, option) ==
    {fk \in DOMAIN d : Named([step |-> d[fk][1][1], options |-> d[fk][1][2]],
                             step, option)}

\* C9: delete_all(step) removes every entry of the step, delete_all(step,
\* option) exactly the entries of the step whose own option is the option;
\* every other entry stays as it was and nothing is raised, in the
\* FileCache and in the DictCache
C9_DeleteAllExact ==
    cres.last.op = "delete_all" =>
      /\ ~cres.last.file.raised
      /\ fdir = cres.last.before.file
                  \ NamedFiles(cres.last.before.file, cres.last.step, cres.last.option)
      /\ ~cres.last.dict.raised
      /\ ddict = [fk \in DOMAIN cres.last.before.dict
                          \ NamedKeys(cres.last.before.dict, cres.last.step,
                                      cres.last.option)
                    |-> cres.last.before.dict[fk]]

\* C10: get(step, options, default) on a key without an entry returns the
\* default, raises nothing and leaves the cache as it was, in the FileCache
\* and in the DictCache
C10_MissReturnsDefault ==
    cres.last.op = "get" =>
      /\ Glob(cres.last.before.file,
              format_basename(cres.last.step, cres.last.options)) = {} =>
           /\ ~cres.last.file.raised
           /\ cres.last.file.val = cres.last.item
           /\ fdir = cres.last.before.file
      /\ format_key(cres.last.step, cres.last.options)
            \notin DOMAIN cres.last.before.dict =>
           /\ ~cres.last.dict.raised
           /\ cres.last.dict.val = cres.last.item
           /\ ddict = cres.last.before.dict

----------------------------------------------------------------------------
(* processes that call set, get and contains on one key of a FileCache     *)
(* directory at the same time; every access to the directory is a step     *)
(* (SpecFile)                                                              *)

NumWriters == 2
NumReaders == 1
Procs == 1..(NumWriters + NumReaders)
\* the processes that call set, and those that call get or contains
WriterProcs == 1..NumWriters
ReaderProcs == Procs \ WriterProcs

TheKey == [step |-> StepNames[1], options |-> (StepNames[1] :> "a")]
OtherKey == [step |-> StepNames[1], options |-> (StepNames[1] :> "b")]
TheBase == format_basename(TheKey.step, TheKey.options)
NoName == [base |-> TheBase, ts |-> 0, seed |-> 0]

\* a process: the call it makes and where it is in it; name is the file a
\* writer renamed to or a reader picked, todo the files a writer has left
\* to unlink; nset and quiet say how many sets had returned, and that no
\* set was running, when a reader read the directory
IdleProc ==
    [op |-> "none", pc |-> "idle", cleanup |-> FALSE, item |-> None,
     name |-> NoName, todo |-> <<>>,
     result |-> [raised |-> FALSE, val |-> None], nset |-> 0, quiet |-> FALSE]

Writers == {q \in Procs : fproc[q].op = "set"}
WritersDone == {q \in Writers : fproc[q].pc = "done"}

InitFile ==
    /\ recipe = [g |-> MkGraph([s \in Steps |-> {}]),
                 options |-> [s \in Steps |-> <<"x">>]]
    /\ cache = <<>>
    /\ last = NoCall
    /\ \E dir \in {{}, {File(new_file(OtherKey.step, OtherKey.options, 1, 1),
                             <<<<OtherKey.step, OtherKey.options>>, Default>>)}} :
          fdir = dir /\ fhist = dir
    /\ fproc = [p \in Procs |-> IdleProc]
    /\ ddict = <<>>
    /\ cres = [n |-> 0, last |-> NoCacheCall,
               written |-> [k \in CacheKeys |-> <<>>]]

\* set: open(file_tmp, "wb") and pickle.dump; the temporary file has a
\* name of its own and is no file of the directory's cache___ files
SetWriteTmp(p) ==
    /\ p \in WriterProcs
    /\ fproc[p].pc = "idle"
    /\ \E cleanup \in BOOLEAN :
         fproc' = [fproc EXCEPT ![p] = [@ EXCEPT !.op = "set", !.pc = "tmp",
                                          !.cleanup = cleanup, !.item = Item(p)]]
    /\ UNCHANGED <<execVars, seqVars, fdir, fhist>>

\* set: file_done = self._new_file(step, options); file_tmp.rename(file_done)
SetRename(p) ==
    /\ fproc[p].op = "set" /\ fproc[p].pc = "tmp"
    /\ \E ts \in 1..MaxTs, seed \in 1..MaxSeed :
         LET name == new_file(TheKey.step, TheKey.options, ts, seed)
             payload == <<<<TheKey.step, TheKey.options>>, fproc[p].item>>
         IN /\ fdir' = Rename(fdir, name, payload)
            /\ fhist' = Rename(fhist, name, payload)
            /\ fproc' = [fproc EXCEPT ![p] =
                   [@ EXCEPT !.name = name,
                             !.pc = IF fproc[p].cleanup THEN "renamed" ELSE "done"]]
    /\ UNCHANGED <<execVars, seqVars>>

\* _clean_up_old_files: the glob and the sort
SetGlob(p) ==
    /\ fproc[p].op = "set" /\ fproc[p].pc = "renamed"
    /\ LET todo == CleanUpList(Glob(fdir, TheBase))
       IN fproc' = [fproc EXCEPT ![p] =
              [@ EXCEPT !.todo = todo,
                        !.pc = IF todo = <<>> THEN "done" ELSE "cleanup"]]
    /\ UNCHANGED <<execVars, seqVars, fdir, fhist>>

\* _clean_up_old_files: one f.unlink(missing_ok=True)
SetUnlink(p) ==
    /\ fproc[p].op = "set" /\ fproc[p].pc = "cleanup"
    /\ fdir' = Unlink(fdir, Head(fproc[p].todo))
    /\ fproc' = [fproc EXCEPT ![p] =
          [@ EXCEPT !.todo = Tail(@),
                    !.pc = IF Tail(fproc[p].todo) = <<>> THEN "done" ELSE "cleanup"]]
    /\ UNCHANGED <<execVars, seqVars, fhist>>

\* get: file = self._get_most_recent_file(step, options); without a file
\* the default is returned at once
GetGlob(p) ==
    /\ p \in ReaderProcs
    /\ fproc[p].pc = "idle"
    /\ LET file == MostRecentFile(fdir, TheKey.step, TheKey.options)
       IN fproc' = [fproc EXCEPT ![p] =
              [@ EXCEPT !.op = "get",
                        !.nset = Cardinality(WritersDone),
                        !.quiet = (Writers = WritersDone),
                        !.name = IF file = {} THEN NoName ELSE CHOOSE n \in file : TRUE,
                        !.pc = IF file = {} THEN "done" ELSE "picked",
                        !.result = [raised |-> FALSE, val |-> Default]]]
    /\ UNCHANGED <<execVars, seqVars, fdir, fhist>>

\* get: file.exists()
GetExists(p) ==
    /\ fproc[p].op = "get" /\ fproc[p].pc = "picked"
    /\ fproc' = [fproc EXCEPT ![p] =
          [@ EXCEPT !.pc = IF Exists(fdir, fproc[p].name) THEN "open" ELSE "done"]]
    /\ UNCHANGED <<execVars, seqVars, fdir, fhist>>

\* get: open(file, "rb") and pickle.load; open raises FileNotFoundError
\* when the file is gone
GetOpen(p) ==
    /\ fproc[p].op = "get" /\ fproc[p].pc = "open"
    /\ fproc' = [fproc EXCEPT ![p] =
          [@ EXCEPT !.pc = "done",
                    !.result = IF Exists(fdir, fproc[p].name)
                               THEN [raised |-> FALSE,
                                     val |-> Load(fdir, fproc[p].name)[2]]
                               ELSE [raised |-> TRUE, val |-> None]]]
    /\ UNCHANGED <<execVars, seqVars, fdir, fhist>>

\* contains: self._get_most_recent_file(step, options) is not None
ContainsGlob(p) ==
    /\ p \in ReaderProcs
    /\ fproc[p].pc = "idle"
    /\ fproc' = [fproc EXCEPT ![p] =
          [@ EXCEPT !.op = "contains", !.pc = "done",
                    !.nset = Cardinality(WritersDone),
                    !.quiet = (Writers = WritersDone),
                    !.result = [raised |-> FALSE,
                                val |-> FileCacheContains(fdir, TheKey.step,
                                                          TheKey.options).val]]]
    /\ UNCHANGED <<execVars, seqVars, fdir, fhist>>

NextFile ==
    \/ \E p \in Procs : SetWriteTmp(p)
    \/ \E p \in Procs : SetRename(p)
    \/ \E p \in Procs : SetGlob(p)
    \/ \E p \in Procs : SetUnlink(p)
    \/ \E p \in Procs : GetGlob(p)
    \/ \E p \in Procs : GetExists(p)
    \/ \E p \in Procs : GetOpen(p)
    \/ \E p \in Procs : ContainsGlob(p)

SpecFile == InitFile /\ [][NextFile]_vars

\* the items that sets of the key have renamed into the directory
RenamedItems ==
    {fproc[q].item : q \in {w \in Writers : fproc[w].pc \in {"renamed", "cleanup", "done"}}}

\* C6: once a set of the key has returned, every get that starts later
\* returns an item some set wrote, not the default and not an error, and
\* every contains that starts later returns true, however the other
\* writers' renames and unlinks fall between the reader's steps
C6_ReadersNeverMiss ==
    \A p \in Procs :
       fproc[p].pc = "done" /\ fproc[p].nset >= 1 =>
          /\ fproc[p].op = "get" =>
                ~fproc[p].result.raised /\ fproc[p].result.val \in RenamedItems
          /\ fproc[p].op = "contains" => fproc[p].result.val = PyTrue

----------------------------------------------------------------------------
(* writers that call set on one key of a FileCache directory at the same   *)
(* time, every access to the directory a step, and calls of get made when  *)
(* no set is running (SpecSets)                                            *)

\* cache.get(step, options, default) while no set is running: nothing else
\* touches the directory during the call
GetAfterSets ==
    /\ Writers # {} /\ Writers = WritersDone
    /\ LET fres == FileCacheGet(fdir, TheKey.step, TheKey.options, Default)
       IN cres' = [cres EXCEPT !.last =
              CacheCall("get", TheKey.step, TheKey.options, Default, "", fres,
                        Ret(FALSE, None, ddict))]
    /\ UNCHANGED <<execVars, fileVars, ddict>>

NextSets ==
    \/ \E p \in Procs : SetWriteTmp(p)
    \/ \E p \in Procs : SetRename(p)
    \/ \E p \in Procs : SetGlob(p)
    \/ \E p \in Procs : SetUnlink(p)
    \/ GetAfterSets

SpecSets == InitFile /\ [][NextSets]_vars

\* the file of the key with the greatest (timestamp, seed) ever renamed
GreatestWritten ==
    CHOOSE f \in fhist : /\ f.base = TheBase
                         /\ \A g \in fhist : g.base = TheBase =>
                               (g = f \/ g.ts < f.ts \/ (g.ts = f.ts /\ g.seed < f.seed))

\* C7: a get that runs after several concurrent sets of the key have all
\* returned yields the item of the file with the greatest (timestamp, seed),
\* whatever the order of the writers' steps was
C7_GreatestWins ==
    /\ cres.last.op = "get" /\ cres.last.before.file = fdir
    /\ Writers = WritersDone /\ Cardinality(Writers) >= 2
    => /\ ~cres.last.file.raised
       /\ cres.last.file.val = GreatestWritten.payload[2]

\* two writers with different names have returned, the file of one of them
\* was unlinked, and a get that started afterwards has returned
C7_Witness ==
    \E w1, w2 \in WritersDone :
       /\ cres.last.op = "get" /\ cres.last.before.file = fdir
       /\ Writers = WritersDone /\ Cardinality(Writers) = 2
       /\ fproc[w1].name # fproc[w2].name
       /\ ~Exists(fdir, fproc[w1].name)
       /\ cres.last.file.val = fproc[w2].item

\* C8: the file of a key with the greatest (timestamp, seed) is never
\* removed, and when every set of the key has returned and all of them
\* cleaned up, exactly one file of the key is left
C8_OneNewestLeft ==
    /\ (\E f \in fhist : f.base = TheBase) => GreatestWritten \in fdir
    /\ (Writers # {} /\ Writers = WritersDone /\ \A q \in Writers : fproc[q].cleanup)
          => Cardinality(Glob(fdir, TheBase)) = 1

\* several writers with different names have all returned after cleaning up
C8_Witness ==
    /\ Cardinality(WritersDone) >= 2
    /\ Writers = WritersDone
    /\ \A q \in Writers : fproc[q].cleanup
    /\ \E w1, w2 \in Writers : fproc[w1].name # fproc[w2].name
    /\ Cardinality(Glob(fdir, TheBase)) = 1

----------------------------------------------------------------------------
(* Recipe graph edits (recipe.py).  A recipe under edit is                 *)
(* [g, options, latest_step]: the step graph, every step's option names in *)
(* the order of the options dict, and Recipe.latest_step.                  *)

\* Recipe._LATEST_STEP_ARG_VALUE
LATEST_STEP_ARG_VALUE == "latest step"
\* Recipe.on_exists_step as __init__ leaves it
on_exists_step == "raise"
\* an argument that is not given (None)
NotGiven == "<None>"

\* the parents argument: None, the default "latest step", or a list
ParentsNone == [kind |-> "none", list |-> <<>>]
ParentsLatest == [kind |-> "latest", list |-> <<>>]
ParentsList(l) == [kind |-> "list", list |-> l]

\* nx.descendants(g, n)
RECURSIVE DescendantsFrom(_, _, _)
DescendantsFrom(g, frontier, seen) ==
    LET new == UNION {Range(Successors(g, n)) : n \in frontier} \ seen IN
    IF new = {} THEN seen ELSE DescendantsFrom(g, new, seen \cup new)
Descendants(g, n) == DescendantsFrom(g, {n}, {})

\* DiGraph.add_node: a new node goes to the end of the node list
AddNode(g, n) ==
    IF HasNode(g, n) THEN g
    ELSE [nodes |-> Append(g.nodes, n),
          pred |-> (n :> <<>>) @@ g.pred,
          succ |-> (n :> <<>>) @@ g.succ]

\* DiGraph.remove_edge
RemoveEdge(g, u, v) ==
    [g EXCEPT !.succ[u] = SelectSeq(@, LAMBDA x : x # v),
              !.pred[v] = SelectSeq(@, LAMBDA x : x # u)]

\* the outcome of an edit: whether it raised, and the recipe it leaves
Edit(raised, r) == [raised |-> raised, r |-> r]

\* Recipe.contains_step
contains_step(r, step) == step # ROOT /\ HasNode(r.g, step)

\* the checks of _ensure_valid_step without the search for circles
ensure_valid_step_no_circles(r, step, parents) ==
    \/ step = LATEST_STEP_ARG_VALUE \/ step = ROOT
    \/ step \in Range(parents)
    \/ \E p \in Range(parents) : ~ HasNode(r.g, p)

\* Recipe._ensure_valid_step(step, parents) raises; parents is a list
ensure_valid_step_raises(r, step, parents) ==
    \/ step = LATEST_STEP_ARG_VALUE \/ step = ROOT
    \/ step \in Range(parents)
    \/ \E p \in Range(parents) : ~ HasNode(r.g, p)
    \/ /\ contains_step(r, step)
       /\ \E p \in Range(parents) :
             ~ contains_step(r, p) \/ p \in Descendants(r.g, step)

\* Recipe.update_step(step, name, parents).  The rename test asks for step,
\* which is in the recipe, so a rename raises.  A str given as parents is
\* read character by character and no character is a step.  current_in_edges
\* is a view of the graph: remove_edges_from removes its first edge and the
\* view's iterator then raises RuntimeError (the dict changed size)
update_step(r, step, name, parents) ==
    IF ~ contains_step(r, step) THEN Edit(TRUE, r)
    ELSE IF name # NotGiven THEN Edit(TRUE, r)
    ELSE IF parents.kind = "none" THEN Edit(FALSE, [r EXCEPT !.latest_step = step])
    ELSE IF parents.kind = "latest" THEN Edit(TRUE, r)
    ELSE IF ensure_valid_step_raises(r, step, parents.list) THEN Edit(TRUE, r)
    ELSE IF Len(Predecessors(r.g, step)) > 0
    THEN Edit(TRUE, [r EXCEPT !.g = RemoveEdge(r.g, Predecessors(r.g, step)[1], step)])
    ELSE Edit(FALSE,
              [r EXCEPT !.g = AddEdgesFrom(r.g, [i \in 1..Len(parents.list) |->
                                                    <<parents.list[i], step>>]),
                        !.latest_step = step])

\* the node of the step is set up before the step is found valid
AddStepNodeEarly(r, step, parents, with_noop) ==
    Let(IF parents.kind = "none" THEN <<ROOT>>
        ELSE IF parents.kind = "latest" THEN <<r.latest_step>>
        ELSE parents.list,
        LAMBDA parents_parsed :
    Let([r EXCEPT !.g = AddNode(r.g, step),
                  !.options = (step :> <<>>) @@ r.options],
        LAMBDA r1 :
    IF ensure_valid_step_raises(r, step, parents_parsed) THEN Edit(TRUE, r1)
    ELSE Edit(FALSE,
              [g |-> AddEdgesFrom(r1.g, [i \in 1..Len(parents_parsed) |->
                                           <<parents_parsed[i], step>>]),
               options |-> (step :> IF with_noop THEN <<NOOP>> ELSE <<>>)
                              @@ r.options,
               latest_step |-> step])))

\* add_step, from "parse parents" on: the step is valid, its node is set up
\* with empty options, and the edges from its parents are added
AddStepNode(r, step, parents, with_noop) ==
    Let(IF parents.kind = "none" THEN <<ROOT>>
        ELSE IF parents.kind = "latest" THEN <<r.latest_step>>
        ELSE parents.list,
        LAMBDA parents_parsed :
    IF ensure_valid_step_raises(r, step, parents_parsed) THEN Edit(TRUE, r)
    ELSE Edit(FALSE,
              [g |-> AddEdgesFrom(AddNode(r.g, step),
                                  [i \in 1..Len(parents_parsed) |->
                                      <<parents_parsed[i], step>>]),
               options |-> (step :> IF with_noop THEN <<NOOP>> ELSE <<>>)
                              @@ r.options,
               latest_step |-> step]))

\* Recipe.add_step(step, parents, with_noop, on_exists)
add_step(r, step, parents, with_noop, on_exists) ==
    IF HasNode(r.g, step)
    THEN Let(IF on_exists = "default" THEN on_exists_step ELSE on_exists,
             LAMBDA policy :
         IF policy # "update" THEN Edit(TRUE, r)
         ELSE Let(update_step(r, step, NotGiven, parents), LAMBDA u :
              IF u.raised THEN u ELSE AddStepNode(u.r, step, parents, with_noop)))
    ELSE AddStepNode(r, step, parents, with_noop)

\* the loop of insert_step: every child of the parent is moved to the step
RECURSIVE MoveChildren(_, _, _, _)
MoveChildren(g, parent, step, children) ==
    IF children = <<>> THEN g
    ELSE MoveChildren(AddEdge(RemoveEdge(g, parent, Head(children)),
                              <<step, Head(children)>>),
                      parent, step, Tail(children))

\* Recipe.insert_step(step, parent, with_noop, on_exists)
insert_step(r, step, parent, with_noop, on_exists) ==
    IF parent # NotGiven /\ ~ contains_step(r, parent)
          /\ (Len(r.g.nodes) > 1 \/ ~ HasNode(r.g, parent))
    THEN Edit(TRUE, r)
    ELSE
      Let(IF parent = NotGiven THEN <<>> ELSE Successors(r.g, parent),
          LAMBDA children :
      Let(add_step(r, step,
                   IF parent = NotGiven THEN ParentsNone ELSE ParentsList(<<parent>>),
                   with_noop, on_exists),
          LAMBDA a :
      IF a.raised THEN a
      ELSE Edit(FALSE, [a.r EXCEPT !.g = MoveChildren(a.r.g, parent, step, children),
                                   !.latest_step = step])))

\* Recipe.delete_step(step): the descendants of the step are removed
delete_step(r, step) ==
    IF ~ HasNode(r.g, step) THEN Edit(FALSE, r)
    ELSE Let(Descendants(r.g, step), LAMBDA descendants :
         Edit(FALSE,
              [r EXCEPT !.g = RemoveNodesFrom(r.g, descendants),
                        !.options = [s \in DOMAIN r.options \ descendants |->
                                        r.options[s]]]))

\* Recipe.add_option(func, step, option, on_exists, on_missing_step) for a
\* lambda: without a step it names the latest step.  The test of an option
\* that exists reads self.allow_overwrite, which Recipe does not define
add_option(r, step, option, on_missing_step) ==
    Let(IF step = NotGiven THEN r.latest_step ELSE step, LAMBDA step_parsed :
    Let(IF contains_step(r, step_parsed) THEN Edit(FALSE, r)
        ELSE IF on_missing_step = "add"
        THEN add_step(r, step_parsed, ParentsLatest, FALSE, "raise")
        ELSE Edit(TRUE, r),
        LAMBDA a :
    IF a.raised THEN a
    ELSE IF option \in Range(a.r.options[step_parsed]) THEN Edit(TRUE, a.r)
    ELSE Edit(FALSE, [a.r EXCEPT !.options[step_parsed] = Append(@, option),
                                 !.latest_step = step_parsed])))

----------------------------------------------------------------------------
(* Edits of a recipe that add_step and add_option have built (SpecEdit)    *)

\* the number of edits made on a built recipe
MaxEdits == 1

\* the steps of the built recipes, and a name no built recipe has
EditSteps == <<AllStepNames[1], AllStepNames[2], AllStepNames[3]>>
NewStep == AllStepNames[4]
EditNames == Range(EditSteps) \cup {NewStep, ROOT}

\* Recipe(): the graph holds ROOT only
EmptyRecipe ==
    [g |-> [nodes |-> <<ROOT>>, pred |-> (ROOT :> <<>>), succ |-> (ROOT :> <<>>)],
     options |-> <<>>,
     latest_step |-> ROOT]

\* the parents given when the k-th step is added: none, an empty list, or
\* one or two earlier steps
BuildParents(k) ==
    {ParentsNone, ParentsList(<<>>)}
    \cup {ParentsList(SortedSeq(P)) :
             P \in {Q \in SUBSET {EditSteps[i] : i \in 1..(k - 1)} :
                       Q # {} /\ Cardinality(Q) <= 2}}

\* r.add_step(s, parents); r.add_option(lambda x: x, option="x") for the
\* first Len(parents) steps
RECURSIVE BuildRecipe(_)
BuildRecipe(parents) ==
    IF parents = <<>> THEN EmptyRecipe
    ELSE Let(BuildRecipe(SubSeq(parents, 1, Len(parents) - 1)), LAMBDA r :
         add_option(add_step(r, EditSteps[Len(parents)], parents[Len(parents)],
                             FALSE, "default").r,
                    NotGiven, "x", "add").r)

BuiltRecipes ==
    {BuildRecipe(ps) :
        ps \in UNION {{q \in [1..k -> UNION {BuildParents(i) : i \in 1..k}] :
                          \A i \in 1..k : q[i] \in BuildParents(i)} :
                      k \in 0..Len(EditSteps)}}

\* the lists given as parents of an edit
ParentLists ==
    {<<>>} \cup {<<p>> : p \in Range(EditSteps)}
    \cup {l \in {<<p, q>> : p, q \in Range(EditSteps)} : l[1] # l[2]}
ParentArgs == {ParentsNone, ParentsLatest} \cup {ParentsList(l) : l \in ParentLists}

NoEdit ==
    [op |-> "none", step |-> "", parents |-> ParentsNone, other |-> "",
     with_noop |-> FALSE, on_exists |-> "", raised |-> FALSE,
     before |-> EmptyRecipe, n |-> 0]

\* the record of an edit: the call, whether it raised, the recipe before;
\* other is the name of update_step, the parent of insert_step, the option
\* of add_option
Edited(op, step, parents, other, with_noop, on_exists, res) ==
    /\ recipe' = res.r
    /\ last' = [op |-> op, step |-> step, parents |-> parents, other |-> other,
                with_noop |-> with_noop, on_exists |-> on_exists,
                raised |-> res.raised, before |-> recipe, n |-> last.n + 1]
    /\ UNCHANGED <<cache, fileVars, seqVars>>

InitEdit ==
    /\ recipe \in BuiltRecipes
    /\ last = NoEdit
    /\ cache = <<>>
    /\ fdir = {} /\ fproc = <<>> /\ fhist = {}
    /\ ddict = <<>> /\ cres = <<>>

AddStepCall ==
    /\ last.n < MaxEdits
    /\ \E step \in EditNames, parents \in ParentArgs, with_noop \in BOOLEAN,
          on_exists \in {"default", "update"} :
         Edited("add_step", step, parents, "", with_noop, on_exists,
                add_step(recipe, step, parents, with_noop, on_exists))

UpdateStepCall ==
    /\ last.n < MaxEdits
    /\ \E step \in EditNames :
         \/ \E parents \in ParentArgs \ {ParentsLatest} :
               Edited("update_step", step, parents, NotGiven, FALSE, "",
                      update_step(recipe, step, NotGiven, parents))
         \/ \E name \in {EditSteps[1], NewStep} :
               Edited("update_step", step, ParentsNone, name, FALSE, "",
                      update_step(recipe, step, name, ParentsNone))

InsertStepCall ==
    /\ last.n < MaxEdits
    /\ \E step \in EditNames, parent \in Range(EditSteps) \cup {NotGiven, ROOT},
          on_exists \in {"default", "update"} :
         Edited("insert_step", step, ParentsNone, parent, FALSE, on_exists,
                insert_step(recipe, step, parent, FALSE, on_exists))

DeleteStepCall ==
    /\ last.n < MaxEdits
    /\ \E step \in EditNames :
         Edited("delete_step", step, ParentsNone, "", FALSE, "",
                delete_step(recipe, step))

AddOptionCall ==
    /\ last.n < MaxEdits
    /\ \E step \in {NotGiven, EditSteps[1], EditSteps[3], NewStep},
          option \in {"x", "a"}, on_missing_step \in {"add", "raise"} :
         Edited("add_option", step, ParentsNone, option, FALSE, on_missing_step,
                add_option(recipe, step, option, on_missing_step))

NextEdit ==
    \/ AddStepCall
    \/ UpdateStepCall
    \/ InsertStepCall
    \/ DeleteStepCall
    \/ AddOptionCall

SpecEdit == InitEdit /\ [][NextEdit]_vars

\* C11: after any sequence of edits, raising ones included, the step graph
\* has no self-loop and no step is its own descendant
C11_Acyclic ==
    \A n \in Range(recipe.g.nodes) : n \notin Descendants(recipe.g, n)

\* an existing orphan step was inserted after a step and took its children
C11_Witness ==
    /\ last.op = "insert_step" /\ ~ last.raised
    /\ HasNode(last.before.g, last.step)
    /\ Successors(recipe.g, last.step) # <<>>
    /\ Predecessors(recipe.g, last.step) = <<last.other>>

\* C12: after any sequence of edits every non-ROOT step of the graph has a
\* directed path from ROOT
C12_PathFromRoot ==
    \A n \in Range(recipe.g.nodes) \ {ROOT} : n \in Descendants(recipe.g, ROOT)

\* the cases in which add_step has to reject the call, on the recipe before
AddStepRejects(call) ==
    LET b == call.before
        exists == HasNode(b.g, call.step)
        named == IF call.parents.kind = "list" THEN Range(call.parents.list) ELSE {}
    IN \/ call.step = ROOT
       \/ call.step \in named
       \/ \E p \in named : ~ HasNode(b.g, p)
       \/ exists /\ call.on_exists \in {"default", "raise"}
       \/ exists /\ call.on_exists = "update"
                 /\ \E p \in named : p \in Descendants(b.g, call.step)

\* C13: add_step raises and leaves the graph, the options and latest_step
\* unchanged for a reserved name, a step among its own parents, a missing
\* parent, an existing step under on_exists raise, and a descendant given
\* as parent of an existing step
C13_AddStepRejects ==
    last.op = "add_step" /\ AddStepRejects(last)
       => last.raised /\ recipe = last.before

\* an existing step with descendants was given one of them as parent
C13_Witness ==
    /\ last.op = "add_step" /\ last.on_exists = "update"
    /\ last.parents.kind = "list" /\ last.parents.list # <<>>
    /\ contains_step(last.before, last.step)
    /\ \A p \in Range(last.parents.list) : p \in Descendants(last.before.g, last.step)
    /\ last.raised /\ recipe = last.before

\* C14: delete_step on an existing step removes the step and its descendants
\* and nothing else; afterwards the step is not contained and no remaining
\* step has a removed step as parent
C14_DeleteRemovesStep ==
    last.op = "delete_step" /\ contains_step(last.before, last.step) =>
       LET removed == {last.step} \cup Descendants(last.before.g, last.step)
       IN /\ ~ last.raised
          /\ Range(recipe.g.nodes) = Range(last.before.g.nodes) \ removed
          /\ ~ contains_step(recipe, last.step)
          /\ \A n \in Range(recipe.g.nodes) :
                Range(Predecessors(recipe.g, n)) \cap removed = {}

\* C15: update_step with a valid parent list leaves the step with exactly
\* these predecessors in the given order, all other edges and all options
\* unchanged; a call that fails leaves the graph as it was; a rename to an
\* unused name succeeds
C15_UpdateAtomic ==
    last.op = "update_step" =>
       /\ last.raised => recipe.g = last.before.g /\ recipe.options = last.before.options
       /\ ( /\ contains_step(last.before, last.step)
            /\ last.other = NotGiven /\ last.parents.kind = "list"
            /\ ~ ensure_valid_step_raises(last.before, last.step, last.parents.list) )
          => /\ ~ last.raised
             /\ Predecessors(recipe.g, last.step) = last.parents.list
             /\ \A n \in Range(recipe.g.nodes) \ {last.step} :
                   Predecessors(recipe.g, n) = Predecessors(last.before.g, n)
             /\ recipe.options = last.before.options
       /\ ( /\ contains_step(last.before, last.step)
            /\ last.other # NotGiven /\ ~ HasNode(last.before.g, last.other) )
          => ~ last.raised /\ contains_step(recipe, last.other)

\* C16: insert_step(X, parent=P) with a new X and an existing P makes P the
\* only predecessor of X, X the only successor of P, gives X the former
\* successors of P, and puts X where P was among each child's predecessors;
\* without a parent X becomes a child of ROOT and no edge changes
C16_InsertSplices ==
    last.op = "insert_step" /\ ~ HasNode(last.before.g, last.step)
                            /\ last.step # LATEST_STEP_ARG_VALUE =>
       LET b == last.before.g
           X == last.step
           P == last.other
       IN /\ contains_step(last.before, P) =>
                /\ ~ last.raised
                /\ Predecessors(recipe.g, X) = <<P>>
                /\ Successors(recipe.g, P) = <<X>>
                /\ Successors(recipe.g, X) = Successors(b, P)
                /\ \A c \in Range(Successors(b, P)) :
                      Predecessors(recipe.g, c) =
                         [i \in 1..Len(Predecessors(b, c)) |->
                             IF Predecessors(b, c)[i] = P THEN X
                             ELSE Predecessors(b, c)[i]]
          /\ P = NotGiven =>
                /\ ~ last.raised
                /\ Predecessors(recipe.g, X) = <<ROOT>>
                /\ \A n \in Range(b.nodes) \ {ROOT} :
                      /\ Predecessors(recipe.g, n) = Predecessors(b, n)
                      /\ Successors(recipe.g, n) = Successors(b, n)

\* C17: input_steps is the list of the direct successors of ROOT in the
\* order in which they were attached, output_steps the nodes without
\* successors; a step that gets a child is no output step any more
C17_InputOutputSteps ==
    LET g == recipe.g
        old == input_steps(last.before.g)
        new == input_steps(g)
    IN /\ Range(new) = {n \in Range(g.nodes) : ROOT \in Range(Predecessors(g, n))}
       /\ Len(new) = Cardinality(Range(new))
       /\ last.op # "none" =>
             /\ SelectSeq(new, LAMBDA n : n \in Range(old))
                   = SelectSeq(old, LAMBDA n : n \in Range(new))
             /\ \A i, j \in 1..Len(new) :
                   new[i] \notin Range(old) /\ new[j] \in Range(old) => j < i
       /\ Range(output_steps(g)) =
             {n \in Range(g.nodes) :
                 \A m \in Range(g.nodes) : n \notin Range(Predecessors(g, m))}
       /\ (last.op = "add_step" /\ ~ last.raised /\ last.parents.kind = "list"
              /\ ~ HasNode(last.before.g, last.step)) =>
             /\ \A p \in Range(last.parents.list) : p \notin Range(output_steps(g))
             /\ last.step \in Range(output_steps(g))

\* a new step was added below two steps, one of them a former output step,
\* in a recipe with several input steps
C17_Witness ==
    /\ last.op = "add_step" /\ ~ last.raised
    /\ ~ HasNode(last.before.g, last.step)
    /\ last.parents.kind = "list" /\ Len(last.parents.list) = 2
    /\ \E p \in Range(last.parents.list) : p \in Range(output_steps(last.before.g))
    /\ Len(input_steps(recipe.g)) >= 2

----------------------------------------------------------------------------
(* filter_recipe on recipes whose steps have one option each, with filters *)
(* that take all options from some of the steps (SpecFilter)               *)

\* the recipes: every step has up to MaxParents earlier steps as parents
FilterRecipes ==
    {[g |-> MkGraph(par), options |-> [s \in Steps |-> <<"x">>],
      latest_step |-> StepNames[NumSteps]] :
        par \in ParentChoices}

\* an exclude filter that names the option of every step of K
ExcludeAll(K) ==
    IF K = {} THEN SNone ELSE SList(<<[s \in K |-> PList({"x"})]>>)

\* include filters: none, and one that admits no option of the first step
FilterIncludes == {SNone, SList(<<(StepNames[1] :> PList({"a"}))>>)}

\* the values given as on_purge_step: the three policies and another word
PurgePolicies == {"raise", "warn", "ignore", "skip"}

NoFilter ==
    [op |-> "none", output |-> <<>>, include |-> SNone, exclude |-> SNone,
     on_purge_step |-> "", raised |-> FALSE,
     result |-> [g |-> MkGraph([s \in Steps |-> {}]), options |-> <<>>,
                 latest_step |-> ROOT],
     before |-> [g |-> MkGraph([s \in Steps |-> {}]), options |-> <<>>,
                 latest_step |-> ROOT]]

InitFilter ==
    /\ recipe \in FilterRecipes
    /\ last = NoFilter
    /\ cache = <<>>
    /\ fdir = {} /\ fproc = <<>> /\ fhist = {}
    /\ ddict = <<>> /\ cres = <<>>

\* the object that filter_recipe works on is the object it was given
SameObject(obj) == obj

\* recipe = deepcopy(recipe): the object filter_recipe works on and returns
\* is a new one
deepcopy(obj) == "copy"

\* filter_recipe(recipe, output, include, exclude, on_purge_step) for the
\* include filters and the policies given: the variable recipe is the object
\* given, last.result the object returned
FilterCallWith(includes, policies) ==
    /\ last.op = "none"
    /\ \E output \in OutputChoices, include \in includes,
          K \in SUBSET Steps, on_purge_step \in policies :
         \E res \in {filter_recipe(recipe, output, include, ExcludeAll(K),
                                   on_purge_step)} :
            /\ last' = [op |-> "filter", output |-> output, include |-> include,
                        exclude |-> ExcludeAll(K),
                        on_purge_step |-> on_purge_step,
                        raised |-> res.raised,
                        result |-> IF res.raised THEN NoFilter.result
                                   ELSE res.recipe,
                        before |-> recipe]
            /\ recipe' = IF deepcopy("given") = "given" THEN res.recipe
                         ELSE recipe
    /\ UNCHANGED <<cache, fileVars, seqVars>>

\* filter_recipe(recipe, output, exclude=exclude, on_purge_step=on_purge_step)
FilterCall == FilterCallWith({SNone}, {"raise", "ignore"})

\* returned.steps.remove_node(step) on the recipe a call returned, for the
\* step that was added last
EditReturned ==
    /\ last.op = "filter" /\ ~ last.raised
    /\ \E step \in {last.result.g.nodes[Len(last.result.g.nodes)]} \ {ROOT} :
         \E edited \in {[last.result EXCEPT
                           !.g = RemoveNodesFrom(last.result.g, {step})]} :
            /\ last' = [last EXCEPT !.op = "edit", !.result = edited]
            /\ recipe' = IF deepcopy("given") = "given" THEN edited ELSE recipe
    /\ UNCHANGED <<cache, fileVars, seqVars>>

NextFilter ==
    \/ FilterCall
    \/ EditReturned

SpecFilter == InitFilter /\ [][NextFilter]_vars

\* filter_recipe with every value of on_purge_step, also on an include
\* filter that leaves a step without option
FilterPurging == FilterCallWith(FilterIncludes, PurgePolicies)

\* SimpleDepthFirstExecutor(cache=DictCache()).execute(recipe, input, output,
\* options_include, options_exclude, on_purge_step=on_purge_step)
ExecuteFiltered ==
    /\ last.op = "none"
    /\ \E output \in OutputChoices, include \in FilterIncludes,
          K \in SUBSET Steps, on_purge_step \in PurgePolicies :
         \E res \in {Execute(recipe, output, include, ExcludeAll(K), PNone,
                             PNone, on_purge_step, <<1>>, <<>>)} :
            last' = [op |-> "execute", output |-> output, include |-> include,
                     exclude |-> ExcludeAll(K),
                     on_purge_step |-> on_purge_step,
                     raised |-> res.status # "ok",
                     result |-> NoFilter.result,
                     before |-> recipe]
    /\ UNCHANGED <<recipe, cache, fileVars, seqVars>>

NextPurge ==
    \/ FilterPurging
    \/ ExecuteFiltered

\* the calls that purge steps (SpecPurge)
SpecPurge == InitFilter /\ [][NextPurge]_vars

\* the requested outputs, the steps a requested output descends from, and
\* ROOT
Requested ==
    {s \in Range(recipe.g.nodes) :
        \/ s = ROOT
        \/ s \in Range(last.output)
        \/ Descendants(recipe.g, s) \cap Range(last.output) # {}}

\* C18: every step of the graph filter_recipe returns is a requested output,
\* an ancestor of one, or ROOT, whatever the filters and on_purge_step are
C18_OnlyAncestors ==
    last.op = "filter" /\ ~ last.raised =>
       Range(last.result.g.nodes) \subseteq Requested

\* a step outside the ancestors was dropped and a step of the ancestors
\* was spliced out
C18_Witness ==
    /\ last.op = "filter" /\ ~ last.raised
    /\ Steps \ Requested # {}
    /\ Requested \ Range(last.result.g.nodes) # {}
    /\ Cardinality(Range(last.result.g.nodes)) >= 2

\* the requested part of the recipe, and its steps that were spliced out
Pruned == RemoveNodesFrom(recipe.g, Range(recipe.g.nodes) \ Requested)
SplicedOut == Range(Pruned.nodes) \ Range(last.result.g.nodes)

\* the spliced-out steps from which c is reached through spliced-out steps
RECURSIVE RemovedAbove(_, _)
RemovedAbove(frontier, seen) ==
    LET new == (UNION {Range(Predecessors(Pruned, n)) : n \in frontier}
                   \cap SplicedOut) \ seen
    IN IF new = {} THEN seen ELSE RemovedAbove(new, seen \cup new)

\* C19: when filter_recipe removes steps that lost all options, every
\* predecessor of a removed step is a direct predecessor of every successor
\* of it in the returned graph, also through adjacent removed steps
C19_SplicePreservesAdjacency ==
    last.op = "filter" /\ ~ last.raised =>
       \A c \in Range(last.result.g.nodes) \ {ROOT} :
          \A r \in RemovedAbove({c}, {}) :
             Range(Predecessors(Pruned, r)) \ SplicedOut
                \subseteq Range(Predecessors(last.result.g, c))

\* the predecessors of n in the requested part, every spliced-out one
\* replaced by its own predecessors
RECURSIVE SplicedPredecessors(_)
SplicedPredecessors(n) ==
    Flatten([i \in 1..Len(Predecessors(Pruned, n)) |->
               IF Predecessors(Pruned, n)[i] \in SplicedOut
               THEN SplicedPredecessors(Predecessors(Pruned, n)[i])
               ELSE <<Predecessors(Pruned, n)[i]>>])

\* C20: in a successor's predecessor order the predecessors of a removed
\* step stand where the removed step stood, and the other predecessors keep
\* their relative order
C20_SplicePreservesOrder ==
    last.op = "filter" /\ ~ last.raised =>
       \A c \in Range(last.result.g.nodes) \ {ROOT} :
          LET expected == SplicedPredecessors(c)
              actual == Predecessors(last.result.g, c)
          IN Len(expected) = Cardinality(Range(expected)) =>
                SelectSeq(expected, LAMBDA p : p \in Range(actual)) = actual

\* the requested steps that include and exclude leave without any option
LeftWithoutOption ==
    {s \in Requested \ {ROOT} :
        \A i \in 1..Len(recipe.options[s]) :
           \/ ~ parse_step_option_pattern_list(last.include, FilterIncludeFlags,
                                               s, recipe.options[s][i])
           \/ parse_step_option_pattern_list(last.exclude, FilterExcludeFlags,
                                             s, recipe.options[s][i])}

\* C21: when the filters leave a requested step without any option,
\* filter_recipe and the executor raise under on_purge_step "raise"; under
\* "warn" and "ignore" filter_recipe returns a recipe without that step;
\* another value of on_purge_step is rejected
C21_PurgePolicy ==
    last.op \in {"filter", "execute"} =>
       /\ last.on_purge_step \notin {"raise", "warn", "ignore"} => last.raised
       /\ LeftWithoutOption # {} /\ last.on_purge_step = "raise" => last.raised
       /\ LeftWithoutOption # {} /\ last.on_purge_step \in {"warn", "ignore"}
             => /\ ~ last.raised
                /\ last.op = "filter" =>
                      LeftWithoutOption \cap Range(last.result.g.nodes) = {}

----------------------------------------------------------------------------
(* all_option_combinations on recipes with any option lists (SpecCombos)   *)

\* the most options a step has
MaxOptions == 2

\* the option lists of a step: strings and numbers, no name twice
OptionNames == {"a", "b", "#1"}
OptionLists ==
    UNION {{l \in [1..k -> OptionNames] :
               \A i, j \in 1..k : l[i] = l[j] => i = j} : k \in 0..MaxOptions}

\* recipes with some of the steps, added as input steps in their order
ComboRecipes ==
    UNION {{[g |-> RemoveNodesFrom(MkGraph([s \in Steps |-> {}]), Steps \ S),
             options |-> opts] : opts \in [S -> OptionLists]} :
           S \in SUBSET {StepNames[1], StepNames[2]}}

NoCombos == [op |-> "none", raised |-> FALSE, list |-> <<>>]

InitCombos ==
    /\ recipe \in ComboRecipes
    /\ last = NoCombos
    /\ cache = <<>>
    /\ fdir = {} /\ fproc = <<>> /\ fhist = {}
    /\ ddict = <<>> /\ cres = <<>>

\* all_option_combinations(recipe)
CombinationsCall ==
    /\ last.op = "none"
    /\ last' = [op |-> "combos",
                raised |-> all_option_combinations_raises(recipe),
                list |-> IF all_option_combinations_raises(recipe) THEN <<>>
                         ELSE all_option_combinations(recipe)]
    /\ UNCHANGED <<recipe, cache, fileVars, seqVars>>

NextCombos == CombinationsCall

SpecCombos == InitCombos /\ [][NextCombos]_vars

\* the product of the numbers of options of the steps
RECURSIVE ProductOfCounts(_)
ProductOfCounts(S) ==
    IF S = {} THEN 1
    ELSE LET s == CHOOSE x \in S : TRUE
         IN Len(recipe.options[s]) * ProductOfCounts(S \ {s})

\* C23: all_option_combinations yields as many assignments as the product
\* of the steps' option counts, pairwise distinct, each mapping every step
\* of the recipe to one of that step's own options
C23_ExactProduct ==
    last.op = "combos" =>
       /\ ~ last.raised
       /\ Len(last.list) = ProductOfCounts(DOMAIN recipe.options)
       /\ \A i, j \in 1..Len(last.list) : last.list[i] = last.list[j] => i = j
       /\ \A i \in 1..Len(last.list) :
             /\ DOMAIN last.list[i] = DOMAIN recipe.options
             /\ \A s \in DOMAIN recipe.options :
                   last.list[i][s] \in Range(recipe.options[s])

----------------------------------------------------------------------------
(* Step-option pattern lists as filter_recipe parses them (SpecPatterns)   *)

\* the mappings: each names some of the first two steps with a list of
\* options, which may be empty
PatternOptions == {"a", "b"}
PatternSteps == {StepNames[1], StepNames[2]}
PatternDicts ==
    UNION {[D -> {PList({"a"}), PList({"b"}), PList({})}] :
              D \in SUBSET PatternSteps}

\* the pattern lists: None and the lists of up to two mappings
PatternLists ==
    {SNone} \cup {SList(l) : l \in UNION {[1..k -> PatternDicts] : k \in 0..2}}

NoMatch ==
    [op |-> "none", step |-> "", option |-> "", include |-> FALSE,
     exclude |-> FALSE]

\* cres holds the pattern list that is given as include and as exclude
InitPatterns ==
    /\ cres \in PatternLists
    /\ last = NoMatch
    /\ recipe = <<>> /\ cache = <<>>
    /\ fdir = {} /\ fproc = <<>> /\ fhist = {}
    /\ ddict = <<>>

\* include_parsed(step, option) and exclude_parsed(step, option) with the
\* keyword arguments of filter_recipe
MatchCall ==
    /\ last.op = "none"
    /\ \E step \in PatternSteps, option \in PatternOptions :
          last' = [op |-> "match", step |-> step, option |-> option,
                   include |-> parse_step_option_pattern_list(
                                   cres, FilterIncludeFlags, step, option),
                   exclude |-> parse_step_option_pattern_list(
                                   cres, FilterExcludeFlags, step, option)]
    /\ UNCHANGED <<recipe, cache, fileVars, seqVars>>

NextPatterns == MatchCall

SpecPatterns == InitPatterns /\ [][NextPatterns]_vars

\* the mapping m matches (step, option); missing says what a mapping counts
\* as that does not name the step, or names it with an empty list
MappingMatches(m, step, option, missing) ==
    IF step \notin DOMAIN m THEN missing
    ELSE IF m[step].elems = {} THEN missing
    ELSE option \in m[step].elems

\* C24: a list of mappings matches as include iff some mapping matches and
\* as exclude iff all mappings match; a mapping that does not name the step
\* matches for include and not for exclude; no include matches everything
\* and no exclude nothing
C24_IncludeAnyExcludeAll ==
    last.op = "match" =>
       /\ cres.kind = "none" => last.include /\ ~ last.exclude
       /\ cres.kind = "list" /\ Len(cres.dicts) > 0 =>
             /\ last.include <=>
                   \E i \in 1..Len(cres.dicts) :
                      MappingMatches(cres.dicts[i], last.step, last.option, TRUE)
             /\ last.exclude <=>
                   \A i \in 1..Len(cres.dicts) :
                      MappingMatches(cres.dicts[i], last.step, last.option, FALSE)

----------------------------------------------------------------------------
(* execution_path_lazy on the pruned graphs that _execute_instance gives   *)
(* it (SpecPlan)                                                           *)

\* the recipes: four steps, each with up to two earlier steps as parents
PlanNames == SubSeq(AllStepNames, 1, 4)
PlanSteps == Range(PlanNames)
PlanParents ==
    {par \in [PlanSteps -> SUBSET PlanSteps] :
        \A s \in PlanSteps :
            /\ \A q \in par[s] : Rank(q) < Rank(s)
            /\ Cardinality(par[s]) <= 2}

\* the step graph after add_step(s1, ...), ..., add_step(s4, ...)
PlanGraph(par) ==
    Let([n \in PlanSteps \cup {ROOT} |->
            IF n = ROOT THEN <<>>
            ELSE IF par[n] = {} THEN <<ROOT>>
            ELSE SortedSeq(par[n])],
        LAMBDA pred :
    [nodes |-> <<ROOT>> \o PlanNames,
     pred |-> pred,
     succ |-> [n \in PlanSteps \cup {ROOT} |->
                 SortedSeq({s \in PlanSteps : n \in Range(pred[s])})]])

NoPlan == [op |-> "none", dag |-> PlanGraph([s \in PlanSteps |-> {}]),
           status |-> "", layers |-> <<>>]

InitPlan ==
    /\ \E par \in PlanParents :
          recipe = [g |-> PlanGraph(par), options |-> [s \in PlanSteps |-> <<"x">>]]
    /\ last = NoPlan
    /\ cache = <<>>
    /\ fdir = {} /\ fproc = <<>> /\ fhist = {}
    /\ ddict = <<>> /\ cres = <<>>

\* execution_path_lazy(Recipe(recipe.steps.subgraph(steps_to_execute))): the
\* steps to execute are ROOT and the steps that are not read from the cache
PlanCall ==
    /\ last.op = "none"
    /\ \E steps_to_execute \in SUBSET PlanSteps :
         \E dag \in {RemoveNodesFrom(recipe.g, PlanSteps \ steps_to_execute)} :
            last' = [op |-> "plan", dag |-> dag,
                     status |-> execution_path_lazy(dag).status,
                     layers |-> execution_path_lazy(dag).layers]
    /\ UNCHANGED <<recipe, cache, fileVars, seqVars>>

NextPlan == PlanCall

SpecPlan == InitPlan /\ [][NextPlan]_vars

\* where the planned layers hold the step n: layer, sequence, place
PlacesOf(n) ==
    {<<i, j, k>> \in (1..Len(last.layers)) \X (1..5) \X (1..5) :
        /\ j <= Len(last.layers[i])
        /\ k <= Len(last.layers[i][j])
        /\ last.layers[i][j][k] = n}

\* C25: the layers the lazy planner returns hold every step other than ROOT
\* once and nothing else, and for every edge u -> v the step u is in an
\* earlier layer than v or earlier in the same sequence
C25_LayersRespectEdges ==
    last.op = "plan" =>
       /\ last.status = "ok"
       /\ PlacesOf(ROOT) = {}
       /\ \A n \in Range(last.dag.nodes) \ {ROOT} : Cardinality(PlacesOf(n)) = 1
       /\ \A u, v \in Range(last.dag.nodes) \ {ROOT} :
             u \in Range(Predecessors(last.dag, v)) =>
                \A a \in PlacesOf(u), b \in PlacesOf(v) :
                   \/ a[1] < b[1]
                   \/ a[1] = b[1] /\ a[2] = b[2] /\ a[3] < b[3]

----------------------------------------------------------------------------
(* CacheOnlyExecutor (executor/cacheonly.py) with a DictCache as the main  *)
(* cache and a DictCache as the local cache (SpecCacheOnly)                *)

\* the for loop of _execute_instance over the output steps: acc is
\* [raised, output, local]; missing_policy and missing_default_value are
\* not read
RECURSIVE CacheOnlyOutputs(_, _, _, _, _, _)
CacheOnlyOutputs(steps, options, include, exclude, main, acc) ==
    IF steps = <<>> \/ acc.raised THEN acc
    ELSE
      Let(Head(steps), LAMBDA step :
      Let(DictCacheContains(acc.local, step, options), LAMBDA has :
      IF has.raised THEN [acc EXCEPT !.raised = TRUE]
      ELSE IF has.val
      THEN CacheOnlyOutputs(Tail(steps), options, include, exclude, main,
               [acc EXCEPT !.output =
                   (step :> DictCacheGet(acc.local, step, options, None).val) @@ @])
      ELSE
        Let(CacheGet(main, step, options, None, include, exclude),
            LAMBDA step_output :
        IF step_output.raised THEN [acc EXCEPT !.raised = TRUE]
        ELSE CacheOnlyOutputs(Tail(steps), options, include, exclude, main,
                 [acc EXCEPT
                    !.output = (step :> step_output.val) @@ @,
                    !.local = IF step_output.val = None THEN @
                              ELSE DictCacheSet(@, step, options,
                                                step_output.val).dict]))))

\* CacheOnlyExecutor._execute_instance(options, recipe, input, output_steps,
\* cache_include, cache_exclude)
CacheOnlyInstance(options, outputs, include, exclude, main, local) ==
    CacheOnlyOutputs(outputs, options, include, exclude, main,
                     [raised |-> FALSE, output |-> <<>>, local |-> local])

\* the instances one after the other (n_jobs is None) on the local cache
RECURSIVE CacheOnlyInstances(_, _, _, _, _, _)
CacheOnlyInstances(options_list, outputs, include, exclude, main, acc) ==
    IF options_list = <<>> \/ acc.raised THEN acc
    ELSE
      Let(CacheOnlyInstance(Head(options_list), outputs, include, exclude,
                            main, acc.local),
          LAMBDA res :
      CacheOnlyInstances(Tail(options_list), outputs, include, exclude, main,
          [raised |-> res.raised,
           results |-> Append(acc.results, res.output),
           local |-> res.local]))

\* CacheOnlyExecutor._execute: on_purge_step is not passed on to
\* filter_recipe
CacheOnlyExecute(r, output, options_include, options_exclude, cache_include, cache_exclude, main, local) ==
    Let(filter_recipe(r, output, options_include, options_exclude, "raise"),
        LAMBDA fr :
    IF fr.raised THEN [raised |-> TRUE, pairs |-> <<>>, local |-> local]
    ELSE
      Let(filtered_option_combinations(fr.recipe, output, options_include,
                                       options_exclude),
          LAMBDA combos :
      IF combos.raised THEN [raised |-> TRUE, pairs |-> <<>>, local |-> local]
      ELSE
        Let(CacheOnlyInstances(combos.list, output, cache_include, cache_exclude,
                               main,
                               [raised |-> FALSE, results |-> <<>>,
                                local |-> local]),
            LAMBDA run :
        [raised |-> run.raised,
         pairs |-> IF run.raised THEN <<>>
                   ELSE [i \in 1..Len(combos.list) |->
                           <<combos.list[i], run.results[i]>>],
         local |-> run.local])))

\* the calls made on one executor
MaxCalls == 2

\* what a local cache given to the executor holds for a step
LocalItem(step) == Val("local", step, <<>>)

\* a local cache that holds LocalItem for the steps of K under every
\* assignment of the list
RECURSIVE LocalCache(_, _)
LocalCache(K, assignments) ==
    IF assignments = <<>> THEN <<>>
    ELSE [fk \in {format_key(s, Head(assignments)) :
                     s \in K \cap DOMAIN Head(assignments)} |->
             <<<<parse_key(fk)[1], Head(assignments)>>,
               LocalItem(parse_key(fk)[1])>>]
         @@ LocalCache(K, Tail(assignments))

NoCacheOnly ==
    [op |-> "none", n |-> 0, output |-> <<>>, cache_include |-> PNone,
     raised |-> FALSE, pairs |-> <<>>, main |-> <<>>, local |-> <<>>]

\* recipe: steps with one option each; cache: the main cache, which holds
\* results of some steps; ddict: the local cache given to the executor;
\* cres: missing_policy and missing_default_value
InitCacheOnly ==
    /\ recipe \in {[g |-> MkGraph(par), options |-> [s \in Steps |-> <<"x">>]] :
                      par \in TreeChoices}
    /\ \E K \in SUBSET Steps :
          cache = StaleCache(K, SeqOf(SubAssignments(OneOption)))
    /\ \E K \in SUBSET {StepNames[1]} :
          ddict = LocalCache(K, SeqOf(SubAssignments(OneOption)))
    /\ \E missing_policy \in {"raise", "warn", "default"} :
          cres = [missing_policy |-> missing_policy,
                  missing_default_value |-> Default]
    /\ last = NoCacheOnly
    /\ fdir = {} /\ fproc = <<>> /\ fhist = {}

\* executor.execute(recipe, input, output, cache_include=cache_include)
CacheOnlyCall ==
    /\ last.n < MaxCalls
    /\ \E output \in OutputChoices, cache_include \in {PNone, PList(Steps)} :
         \E res \in {CacheOnlyExecute(recipe, output, SNone, SNone,
                                      cache_include, PNone, cache, ddict)} :
            /\ ddict' = res.local
            /\ last' = [op |-> "execute", n |-> last.n + 1, output |-> output,
                        cache_include |-> cache_include,
                        raised |-> res.raised, pairs |-> res.pairs,
                        main |-> cache, local |-> ddict]
    /\ UNCHANGED <<recipe, cache, fileVars, cres>>

NextCacheOnly == CacheOnlyCall

SpecCacheOnly == InitCacheOnly /\ [][NextCacheOnly]_vars

\* the assignment of the call and the key of an output step
CallOptions == [s \in Range(last.output) \cup
                      UNION {Ancestors(recipe.g, o) \ {ROOT} :
                                o \in Range(last.output)} |-> "x"]
MissingInBoth(step) ==
    /\ format_key(step, CallOptions) \notin DOMAIN last.main
    /\ format_key(step, CallOptions) \notin DOMAIN last.local

\* C26: when a requested output has no cache entry for the assignment, the
\* call raises under missing_policy "raise" and returns
\* missing_default_value as the step's result under "default"
C26_MissingPolicy ==
    last.op = "execute" =>
       \A step \in Range(last.output) :
          MissingInBoth(step) =>
             /\ cres.missing_policy = "raise" => last.raised
             /\ cres.missing_policy = "default" =>
                   /\ ~ last.raised
                   /\ \A i \in 1..Len(last.pairs) :
                         last.pairs[i][2][step] = cres.missing_default_value
             /\ cres.missing_policy = "warn" => ~ last.raised

\* C27: the cache-only executor leaves the main cache as it is and returns,
\* for every requested output, the value of the local cache when it holds
\* one, otherwise the value of the main cache, which the local cache holds
\* afterwards
C27_LocalThenMain ==
    last.op = "execute" =>
       /\ cache = last.main
       /\ ~ last.raised =>
             \A i \in 1..Len(last.pairs), step \in Range(last.output) :
                LET fk == format_key(step, last.pairs[i][1])
                IN /\ fk \in DOMAIN last.local =>
                         last.pairs[i][2][step] = last.local[fk][2]
                   /\ fk \notin DOMAIN last.local /\ fk \in DOMAIN last.main =>
                         /\ last.pairs[i][2][step] = last.main[fk][2]
                         /\ fk \in DOMAIN ddict
                         /\ ddict[fk][2] = last.main[fk][2]

----------------------------------------------------------------------------
(* execute_recipe with cache_reset (executor/utils_dag.py) on the executor *)
(* of a Session, whose cache is a DictCache (SpecReset)                    *)

\* what is given as cache_reset when none is given
ResetNone == "<None>"

\* "cache reset": "last step" and "output" delete every entry of the
\* requested steps, "all" clears the cache, another word raises
CacheReset(d, steps_parsed, cache_reset) ==
    IF cache_reset = ResetNone THEN Ret(FALSE, None, d)
    ELSE IF cache_reset \in {"last step", "output"}
    THEN Ret(FALSE, None,
             [fk \in {k \in DOMAIN d : parse_key(k)[1] \notin Range(steps_parsed)} |->
                 d[fk]])
    ELSE IF cache_reset = "all" THEN Ret(FALSE, None, <<>>)
    ELSE Ret(TRUE, None, d)

\* execute_recipe(recipe, input, step=step, cache_include=cache_include,
\* cache_reset=cache_reset, executor=executor): option and include are
\* "latest", so every step is included with its latest option; a step name
\* given as cache_include enables that step
execute_recipe(r, step, cache_include, cache_reset, d) ==
    Let(<<step>>, LAMBDA steps_parsed :
    Let(SList(<<[s \in Range(r.g.nodes) \ {ROOT} |->
                   PList({r.options[s][Len(r.options[s])]})]>>),
        LAMBDA include_parsed :
    Let(IF cache_include = "last step" THEN PList({r.latest_step})
        ELSE PList({cache_include}),
        LAMBDA cache_include_parsed :
    Let(CacheReset(d, steps_parsed, cache_reset), LAMBDA reset :
    IF reset.raised
    THEN [status |-> "raise", pairs |-> <<>>, runs |-> <<>>, cache |-> d]
    ELSE Execute(r, steps_parsed, include_parsed, SNone, cache_include_parsed,
                 PNone, "raise", <<1>>, reset.dict)))))

NoReset ==
    [op |-> "none", step |-> "", cache_include |-> "", cache_reset |-> "",
     status |-> "", pairs |-> <<>>, runs |-> <<>>, before |-> <<>>]

\* the cache holds results of earlier implementations of some steps
InitReset ==
    /\ recipe \in FilterRecipes
    /\ \E K \in SUBSET Steps :
          cache = StaleCache(K, SeqOf(SubAssignments(OneOption)))
    /\ last = NoReset
    /\ fdir = {} /\ fproc = <<>> /\ fhist = {}
    /\ ddict = <<>> /\ cres = <<>>

\* session.execute(step=step, cache_include=cache_include,
\* cache_reset=cache_reset)
ExecuteRecipeCall ==
    /\ last.op = "none"
    /\ \E step \in Steps, cache_include \in {"last step"} \cup Steps,
          cache_reset \in {ResetNone, "last step", "all", "first step"} :
         \E res \in {execute_recipe(recipe, step, cache_include, cache_reset,
                                    cache)} :
            /\ cache' = res.cache
            /\ last' = [op |-> "execute", step |-> step,
                        cache_include |-> cache_include,
                        cache_reset |-> cache_reset, status |-> res.status,
                        pairs |-> res.pairs, runs |-> res.runs,
                        before |-> cache]
    /\ UNCHANGED <<recipe, fileVars, seqVars>>

NextReset == ExecuteRecipeCall

SpecReset == InitReset /\ [][NextReset]_vars

\* the step that cache_include enables, and the steps cached before the call
EnabledStep ==
    IF last.cache_include = "last step" THEN recipe.latest_step
    ELSE last.cache_include
CachedBefore == {parse_key(fk)[1] : fk \in DOMAIN last.before}

\* the ancestors of the requested step that must run with it: those reached
\* from it through steps that are not read from the cache
RECURSIVE UncachedAbove(_, _)
UncachedAbove(frontier, seen) ==
    LET new == {p \in UNION {Range(Predecessors(recipe.g, n)) : n \in frontier} :
                   /\ p # ROOT
                   /\ ~ (p = EnabledStep /\ p \in CachedBefore)} \ seen
    IN IF new = {} THEN seen ELSE UncachedAbove(new, seen \cup new)

\* C28: with cache_reset "last step" the cache entries of the requested step
\* are deleted before the execution, the step is invoked again and so are
\* its uncached ancestors; without a reset a requested step that is
\* cache-enabled and cached is returned from the cache and nothing is invoked
C28_ResetRerunsStep ==
    last.op = "execute" =>
       /\ last.cache_reset = "last step" =>
             /\ last.status = "ok"
             /\ \A fk \in DOMAIN last.before \cap DOMAIN cache :
                   parse_key(fk)[1] = last.step => cache[fk] # last.before[fk]
             /\ \A i \in 1..Len(last.runs) :
                   {last.step} \cup UncachedAbove({last.step}, {})
                      \subseteq InvokedSteps(last.runs[i].res)
       /\ last.cache_reset = ResetNone /\ last.step = EnabledStep
             /\ last.step \in CachedBefore =>
             /\ last.status = "ok"
             /\ \A i \in 1..Len(last.runs) :
                   /\ InvokedSteps(last.runs[i].res) = {}
                   /\ last.pairs[i][2][last.step]
                         = Stale(last.step, last.pairs[i][1])

----------------------------------------------------------------------------
(* Runs of recipes in which implementations of some options raise          *)
(* (SpecRaise)                                                             *)

\* every step has the option "x", and the first two steps may have the
\* raising option too
RaiseOptionChoices ==
    {opts \in [Steps -> {<<"x">>, <<"x", Raising>>}] :
        \A s \in Steps \ {StepNames[1], StepNames[2]} : opts[s] = <<"x">>}

InitRaise ==
    /\ \E par \in TreeChoices, opts \in RaiseOptionChoices :
          recipe = [g |-> MkGraph(par), options |-> opts]
    /\ cache = <<>>
    /\ last = NoCall
    /\ fdir = {} /\ fproc = <<>> /\ fhist = {}
    /\ ddict = <<>> /\ cres = <<>>

\* executor.execute(recipe, input, output=output) with the assignments in
\* any order
ExecuteRaising ==
    /\ last.status = "none"
    /\ \E output \in OutputChoices :
        \E perm \in Shuffles(Dispatched(recipe, output, SNone, SNone, "raise")) :
          ExecutorExecute(Request(output, SNone, SNone, PNone, PNone, "raise"), perm)
    /\ UNCHANGED <<fileVars, seqVars>>

NextRaise == ExecuteRaising

SpecRaise == InitRaise /\ [][NextRaise]_vars

RaiseEvents(res) == SelectSeq(res.trace, LAMBDA e : e.ev = "raise")

\* C29: when the implementation of an option raises during one assignment,
\* the call raises that error, nothing runs after it, and no list of results
\* is returned, whatever the assignments before it returned
C29_ErrorPropagates ==
    (Ran /\ \E i \in 1..Len(last.runs) : RaiseEvents(last.runs[i].res) # <<>>) =>
       /\ last.status = "raise"
       /\ last.pairs = <<>>
       /\ \A i \in 1..Len(last.runs) :
             Let(last.runs[i].res, LAMBDA res :
             RaiseEvents(res) # <<>> =>
                /\ i = Len(last.runs)
                /\ res.trace[Len(res.trace)]
                      = Event("raise", res.trace[Len(res.trace)].step,
                              Raised(res.trace[Len(res.trace)].step, Raising))
                /\ Len(RaiseEvents(res)) = 1)

\* an assignment ran to its end and a later one raised inside an
\* implementation after another step had been invoked
C29_Witness ==
    /\ Ran /\ Len(last.runs) >= 2
    /\ last.runs[1].res.status = "ok"
    /\ Let(last.runs[Len(last.runs)].res, LAMBDA res :
          /\ RaiseEvents(res) # <<>>
          /\ InvokedSteps(res) # {})
    /\ last.status = "raise"

----------------------------------------------------------------------------
(* Eviction of the in-memory results (SpecRun)                             *)

\* the executed steps that read the result of step p
ExecutedConsumers(res, p) ==
    {s \in res.ste \ {ROOT} : p \in Range(Predecessors(recipe.g, s))}

\* the places of the trace at which step s is invoked
InvokedPlaces(res, s) ==
    {k \in 1..Len(res.trace) : res.trace[k].ev = "invoke" /\ res.trace[k].step = s}

\* the steps whose result is in memory when the run ends
HeldAtEnd(res) ==
    {s \in InvokedSteps(res) :
        ~ \E k \in 1..Len(res.trace) :
             res.trace[k].ev = "evict" /\ res.trace[k].step = s}

\* C30: the result of a step is evicted when the last of its executed
\* consumers has been invoked and not before, no eviction fails for a
\* result that is not held, and a run that ends holds no result of a step
\* that an executed step consumes
C30_EvictAtLastConsumer ==
    Ran /\ Len(last.runs) = 1 =>
       /\ \A k \in 1..Len(TheRun.trace) :
             /\ TheRun.trace[k].ev # "evict failed"
             /\ TheRun.trace[k].ev = "evict" =>
                   Let(ExecutedConsumers(TheRun, TheRun.trace[k].step), LAMBDA C :
                   /\ \A s \in C : \E j \in InvokedPlaces(TheRun, s) : j < k
                   /\ \E s \in C : \E j \in InvokedPlaces(TheRun, s) :
                         /\ j < k
                         /\ \A i \in (j + 1)..(k - 1) : TheRun.trace[i].ev = "evict")
       /\ TheRun.status = "ok" =>
             \A s \in HeldAtEnd(TheRun) : ExecutedConsumers(TheRun, s) = {}

----------------------------------------------------------------------------
(* The inputs of the invoked implementations (SpecRun).  Results are not   *)
(* tuples, so "flatten tuples" leaves every input as it is.                *)

\* the values that are the value of predecessor p when the event at place k
\* of the trace is invoked: the external input for ROOT, the result of p
\* when p was invoked before in this run, the cached value when p is skipped
ValuesOf(res, options, p, k) ==
    IF p = ROOT THEN {Input}
    ELSE {res.trace[j].val :
             j \in {i \in 1..(k - 1) : res.trace[i].ev = "invoke"
                                       /\ res.trace[i].step = p}}
         \cup (IF SkippedBefore(last, options, p)
               THEN {last.before[format_key(p, options)][2]} ELSE {})

\* C31: every invoked implementation receives, in the order of the step's
\* predecessors, the external input for ROOT, the in-memory result of a
\* predecessor executed in the run, and the cached value of a skipped one
C31_InputsFromPredecessors ==
    Ran /\ Len(last.runs) = 1 =>
       \A k \in 1..Len(TheRun.trace) :
          TheRun.trace[k].ev = "invoke" =>
             Let(Predecessors(recipe.g, TheRun.trace[k].step), LAMBDA preds :
             /\ Len(TheRun.trace[k].val.in) = Len(preds)
             /\ \A i \in 1..Len(preds) :
                   TheRun.trace[k].val.in[i]
                      \in ValuesOf(TheRun, TheOptions, preds[i], k))

----------------------------------------------------------------------------
(* Sequences of executions on one executor, starting from an empty cache   *)
(* (SpecCaching)                                                           *)

\* the cache patterns of a call: no step, the first step, every step, and
\* every step but the first
CachingPatterns ==
    {<<PNone, PNone>>, <<PList({StepNames[1]}), PNone>>,
     <<PList(Steps), PNone>>, <<PList(Steps), PList({StepNames[1]})>>}

NoCaching ==
    [n |-> 0, status |-> "none", req |-> Request(<<>>, SNone, SNone, PNone,
                                                 PNone, "raise"),
     before |-> <<>>, runs |-> <<>>, pairs |-> <<>>, written |-> {}]

InitCaching ==
    /\ \E par \in TreeChoices :
          recipe = [g |-> MkGraph(par), options |-> [s \in Steps |-> <<"x">>]]
    /\ cache = <<>>
    /\ last = NoCaching
    /\ fdir = {} /\ fproc = <<>> /\ fhist = {}
    /\ ddict = <<>> /\ cres = <<>>

\* the keys of the invocations of a call for which the step was
\* cache-enabled
EnabledInvocations(runs, include, exclude) ==
    UNION {{format_key(e.step, runs[i].options) :
               e \in {x \in Range(InvokeEvents(runs[i].res)) :
                         CacheMatch(x.step, include, exclude)}} :
           i \in 1..Len(runs)}

\* executor.execute(recipe, input, output=[step], cache_include=...,
\* cache_exclude=...), one call after another on the same executor
ExecuteCaching ==
    /\ last.n < MaxCalls
    /\ \E step \in Steps, pat \in CachingPatterns :
         \E res \in {Execute(recipe, <<step>>, SNone, SNone, pat[1], pat[2],
                             "raise", <<1>>, cache)} :
            /\ cache' = res.cache
            /\ last' = [n |-> last.n + 1, status |-> res.status,
                        req |-> Request(<<step>>, SNone, SNone, pat[1], pat[2],
                                        "raise"),
                        before |-> cache, runs |-> res.runs,
                        pairs |-> res.pairs,
                        written |-> last.written
                           \cup EnabledInvocations(res.runs, pat[1], pat[2])]
    /\ UNCHANGED <<recipe, fileVars, seqVars>>

NextCaching == ExecuteCaching

SpecCaching == InitCaching /\ [][NextCaching]_vars

\* step is cache-enabled in the last call
EnabledInLast(step) ==
    CacheMatch(step, last.req.cache_include, last.req.cache_exclude)

\* the inputs that the last call took for steps that it did not invoke
\* before: <<step, value>>
InputsNotComputed(res) ==
    UNION {{<<Predecessors(recipe.g, res.trace[k].step)[i], res.trace[k].val.in[i]>> :
               i \in {j \in 1..Len(res.trace[k].val.in) :
                         Let(Predecessors(recipe.g, res.trace[k].step)[j], LAMBDA p :
                             /\ p # ROOT
                             /\ ~ \E m \in 1..(k - 1) :
                                     /\ res.trace[m].ev = "invoke"
                                     /\ res.trace[m].step = p)}} :
           k \in {x \in 1..Len(res.trace) : res.trace[x].ev = "invoke"}}

----------------------------------------------------------------------------
(* FileCache.items on a directory that writes with and without cleanup     *)
(* have filled (SpecItems)                                                 *)

\* the order of sorted() on the paths of the directory: by the basename
\* (the order of the hex digests, one fixed order), then as NameLess
BaseOrder(dir) == SeqOf({f.base : f \in dir})
PathLess(dir, f, g) ==
    Let(BaseOrder(dir), LAMBDA order :
    Let(CHOOSE i \in 1..Len(order) : order[i] = f.base, LAMBDA fi :
    Let(CHOOSE i \in 1..Len(order) : order[i] = g.base, LAMBDA gi :
    fi < gi \/ (fi = gi /\ NameLess(f, g)))))

\* list(sorted(out_path.glob("cache___*___ts-*___seed-*.pickle"),
\* reverse=True))
RECURSIVE SortedFiles(_, _)
SortedFiles(dir, names) ==
    IF names = {} THEN <<>>
    ELSE Let(CHOOSE f \in names : \A g \in names : g = f \/ PathLess(dir, g, f),
             LAMBDA top : <<top>> \o SortedFiles(dir, names \ {top}))

NoPath == <<>>

\* the for loop of FileCache.items: a pair is yielded when the path differs
\* from last_path, and last_path is assigned only when it does not
RECURSIVE ItemsLoop(_, _, _, _)
ItemsLoop(dir, files, last_path, yielded) ==
    IF files = <<>> THEN yielded
    ELSE Let(Load(dir, Head(files)), LAMBDA loaded :
         IF loaded[1] # last_path
         THEN ItemsLoop(dir, Tail(files), last_path, Append(yielded, loaded))
         ELSE ItemsLoop(dir, Tail(files), loaded[1], yielded))

\* list(FileCache.items())
FileCacheItems(dir) ==
    ItemsLoop(dir, SortedFiles(dir, {NameOf(f) : f \in dir}), NoPath, <<>>)

NoItems == [n |-> 0, op |-> "none", items |-> <<>>]

InitItems ==
    /\ recipe = [g |-> MkGraph([s \in Steps |-> {}]),
                 options |-> [s \in Steps |-> <<"x">>]]
    /\ cache = <<>>
    /\ last = NoCall
    /\ fdir = {} /\ fproc = <<>> /\ fhist = {}
    /\ ddict = <<>>
    /\ cres = NoItems

\* cache.set(step, options, item, cleanup=cleanup): a later write reads a
\* later clock
ItemsSetCall ==
    /\ cres.n < MaxOps
    /\ \E k \in CacheKeys, cleanup \in BOOLEAN, seed \in 1..MaxSeed :
         fdir' = FileCacheSet(fdir, k.step, k.options, Item(cres.n + 1),
                              cleanup, cres.n + 1, seed).dir
    /\ cres' = [n |-> cres.n + 1, op |-> "set", items |-> <<>>]
    /\ UNCHANGED <<execVars, fproc, fhist, ddict>>

\* list(cache.items())
ItemsCall ==
    /\ cres.op = "set"
    /\ cres' = [cres EXCEPT !.op = "items", !.items = FileCacheItems(fdir)]
    /\ UNCHANGED <<execVars, fileVars, ddict>>

NextItems ==
    \/ ItemsSetCall
    \/ ItemsCall

SpecItems == InitItems /\ [][NextItems]_vars

\* the keys that have a file in the directory
LiveKeys(dir) == {f.payload[1] : f \in dir}

\* C33: items() yields exactly one pair for every key that has an entry,
\* with the value of the most recent entry of the key, also when
\* superseded files of the key are still in the directory
C33_ItemsLiveOnly ==
    cres.op = "items" =>
       /\ {p[1] : p \in Range(cres.items)} = LiveKeys(fdir)
       /\ \A i, j \in 1..Len(cres.items) :
             cres.items[i][1] = cres.items[j][1] => i = j
       /\ \A i \in 1..Len(cres.items) :
             cres.items[i][2]
                = FileCacheGet(fdir, cres.items[i][1][1], cres.items[i][1][2],
                               None).val

----------------------------------------------------------------------------
(* execution_path_eager (utils/execution.py), and both planners on the     *)
(* step graphs of recipes (SpecPlanners).  candidates is a Python set of   *)
(* names, whose iteration order differs from run to run, so the planner    *)
(* has a set of outcomes.                                                  *)

\* the sequence built for a ready step: the step, then its successors as
\* long as the step has one successor and that one has one predecessor
RECURSIVE EagerSequence(_, _)
EagerSequence(dag, step) ==
    LET successors == Successors(dag, step) IN
    IF Len(successors) = 1 /\ Len(Predecessors(dag, successors[1])) = 1
    THEN <<step>> \o EagerSequence(dag, successors[1])
    ELSE <<step>>

\* "for step in candidates" with the steps of todo still to come, for every
\* order of them: executed_steps is updated as soon as a sequence is built
RECURSIVE EagerPass(_, _, _, _, _)
EagerPass(dag, todo, executed_steps, layer, waitlist) ==
    IF todo = {}
    THEN {[executed_steps |-> executed_steps, layer |-> layer,
           waitlist |-> waitlist]}
    ELSE UNION {
        IF step \in executed_steps
        THEN EagerPass(dag, todo \ {step}, executed_steps, layer, waitlist)
        ELSE IF \A c \in Range(Predecessors(dag, step)) : c \in executed_steps
        THEN EagerPass(dag, todo \ {step},
                       executed_steps \cup Range(EagerSequence(dag, step)),
                       layer \cup {EagerSequence(dag, step)}, waitlist)
        ELSE EagerPass(dag, todo \ {step}, executed_steps, layer,
                       waitlist \cup {step}) : step \in todo}

\* the while loop of execution_path_eager; a pass that places nothing
\* repeats forever
RECURSIVE EagerLoop(_, _, _, _)
EagerLoop(dag, execution_layers, executed_steps, waitlist) ==
    IF ~ (Cardinality(executed_steps) < Len(dag.nodes) - 1)
    THEN {[status |-> "ok", layers |-> execution_layers]}
    ELSE
      Let({q[Len(q)] : q \in Range(execution_layers[Len(execution_layers)])},
          LAMBDA ends :
      Let(({s \in UNION {Range(Successors(dag, n)) : n \in ends} :
               s \notin executed_steps}) \cup waitlist,
          LAMBDA candidates :
      UNION {IF pass.layer = {}
             THEN {[status |-> "hang", layers |-> execution_layers]}
             ELSE EagerLoop(dag, Append(execution_layers, SortedLists(pass.layer)),
                            pass.executed_steps, pass.waitlist) :
             pass \in EagerPass(dag, candidates, executed_steps, {}, waitlist)}))

\* execution_path_eager(recipe), for the step graph g of the recipe: the
\* outcomes it can have
execution_path_eager(g) ==
    Let(input_steps(g), LAMBDA ins :
    EagerLoop(g, <<[i \in 1..Len(ins) |-> <<ins[i]>>]>>, Range(ins), {}))

NoPlanners ==
    [op |-> "none", lazy |-> [status |-> "", layers |-> <<>>],
     eager |-> [status |-> "", layers |-> <<>>]]

InitPlanners ==
    /\ \E par \in PlanParents :
          recipe = [g |-> PlanGraph(par), options |-> [s \in PlanSteps |-> <<"x">>]]
    /\ last = NoPlanners
    /\ cache = <<>>
    /\ fdir = {} /\ fproc = <<>> /\ fhist = {}
    /\ ddict = <<>> /\ cres = <<>>

\* execution_path_lazy(recipe) and execution_path_eager(recipe)
PlannersCall ==
    /\ last.op = "none"
    /\ \E eager \in execution_path_eager(recipe.g) :
          last' = [op |-> "plan", lazy |-> execution_path_lazy(recipe.g),
                   eager |-> eager]
    /\ UNCHANGED <<recipe, cache, fileVars, seqVars>>

NextPlanners == PlannersCall

SpecPlanners == InitPlanners /\ [][NextPlanners]_vars

\* step a depends on step b, directly or transitively
DependsOn(a, b) == b \in Descendants(recipe.g, a) \/ a \in Descendants(recipe.g, b)

\* no step of a sequence of a layer depends on, or is depended on by, a
\* step of another sequence of the layer
IndependentLayers(layers) ==
    \A i \in 1..Len(layers) : \A j, k \in 1..Len(layers[i]) :
       j # k => \A a \in Range(layers[i][j]), b \in Range(layers[i][k]) :
                   ~ DependsOn(a, b)

\* C34: in every layer of the lazy and of the eager plan no step of one
\* sequence depends on a step of another sequence of the layer, for every
\* iteration order of the candidates
C34_LayersConcurrent ==
    last.op = "plan" =>
       /\ IndependentLayers(last.lazy.layers)
       /\ IndependentLayers(last.eager.layers)

\* the sequences of every layer are in sorted order
SortedLayers(layers) ==
    \A i \in 1..Len(layers) : layers[i] = SortedLists(Range(layers[i]))

\* C35: the planners return the same layers on every run, whatever the
\* iteration order of the candidates, and the sequences of every layer are
\* in sorted order
C35_PlannerDeterministic ==
    last.op = "plan" =>
       /\ last.eager = CHOOSE e \in execution_path_eager(recipe.g) : TRUE
       /\ last.lazy = execution_path_lazy(recipe.g)
       /\ SortedLayers(last.eager.layers)
       /\ SortedLayers(last.lazy.layers)

\* where layers hold the step n: layer, sequence, place
PlacesIn(layers, n) ==
    {<<i, j, k>> \in (1..Len(layers)) \X (1..5) \X (1..5) :
        /\ j <= Len(layers[i])
        /\ k <= Len(layers[i][j])
        /\ layers[i][j][k] = n}

\* C36: the eager planner places every step other than ROOT once, the input
\* steps in the first layer, and every step after all of its predecessors,
\* in a later layer or later in the same sequence; the lazy planner places
\* the same steps, the leaf steps in the last layer
C36_EagerRespectsEdges ==
    last.op = "plan" =>
       /\ last.eager.status = "ok"
       /\ \A n \in PlanSteps : Cardinality(PlacesIn(last.eager.layers, n)) = 1
       /\ PlacesIn(last.eager.layers, ROOT) = {}
       /\ \A n \in Range(input_steps(recipe.g)) :
             \A a \in PlacesIn(last.eager.layers, n) : a[1] = 1
       /\ \A u, v \in PlanSteps :
             u \in Range(Predecessors(recipe.g, v)) =>
                \A a \in PlacesIn(last.eager.layers, u),
                   b \in PlacesIn(last.eager.layers, v) :
                   \/ a[1] < b[1]
                   \/ a[1] = b[1] /\ a[2] = b[2] /\ a[3] < b[3]
       /\ \A n \in PlanSteps \cup {ROOT} :
             (PlacesIn(last.lazy.layers, n) # {})
                = (PlacesIn(last.eager.layers, n) # {})
       /\ \A n \in Range(OutputStepsWithoutRoot(recipe.g)) :
             \A a \in PlacesIn(last.lazy.layers, n) : a[1] = Len(last.lazy.layers)

\* C37: on every acyclic step graph it is given, also one from which the
\* steps read from the cache were cut so that ROOT has no successor, the
\* lazy planner ends without raising and has placed every step
C37_LazyTerminates ==
    last.op = "plan" =>
       /\ last.status = "ok"
       /\ \A n \in Range(last.dag.nodes) \ {ROOT} :
             \E i \in 1..Len(last.layers) : \E j \in 1..Len(last.layers[i]) :
                n \in Range(last.layers[i][j])

----------------------------------------------------------------------------
(* The keys of two entries, in the DictCache and in the FileCache          *)
(* (SpecKeys)                                                              *)

\* the options of the keys: strings, the no-op option, and the number 1
KeyOptionNames == {"a", "1", "#1", NOOP}
KeySteps == {StepNames[1], StepNames[2]}

\* a step and an assignment that has an option for it
KeyPairs ==
    UNION {{[step |-> step, options |-> options] :
              step \in D, options \in [D -> KeyOptionNames]} :
           D \in SUBSET KeySteps}

NoKeys == [op |-> "none"]

InitKeys ==
    /\ recipe = [g |-> MkGraph([s \in Steps |-> {}]),
                 options |-> [s \in Steps |-> <<"x">>]]
    /\ cache = <<>>
    /\ last = NoKeys
    /\ fdir = {} /\ fproc = <<>> /\ fhist = {}
    /\ ddict = <<>> /\ cres = <<>>

\* format_key and FileCache._format_basename for two entries
FormatCall ==
    /\ last.op = "none"
    /\ \E p \in KeyPairs, q \in KeyPairs :
          last' = [op |-> "format", p |-> p, q |-> q,
                   pkey |-> format_key(p.step, p.options),
                   qkey |-> format_key(q.step, q.options),
                   pbase |-> format_basename(p.step, p.options),
                   qbase |-> format_basename(q.step, q.options)]
    /\ UNCHANGED <<recipe, cache, fileVars, seqVars>>

NextKeys == FormatCall

SpecKeys == InitKeys /\ [][NextKeys]_vars

\* the step/option pairs of an assignment, the steps at no-op dropped
ChosenPairs(options) ==
    {<<s, options[s]>> : s \in {x \in DOMAIN options : options[x] # NOOP}}

\* the two entries have the same step, the same option of that step and the
\* same pairs once the steps at no-op are dropped
SameEntry(p, q) ==
    /\ p.step = q.step
    /\ p.options[p.step] = q.options[q.step]
    /\ ChosenPairs(p.options) = ChosenPairs(q.options)

\* C38: two entries have the same key, in the DictCache and in the
\* FileCache, iff they have the same step, the same option of that step and
\* the same step/option pairs after the steps at no-op are dropped
C38_KeysCanonical ==
    last.op = "format" =>
       /\ (last.pkey = last.qkey) = SameEntry(last.p, last.q)
       /\ (last.pbase = last.qbase) = SameEntry(last.p, last.q)

----------------------------------------------------------------------------
(* Locks (cache/base.py): lock, is_locked and clear_locks on a FileCache   *)
(* and a DictCache that receive the same calls (SpecLocks)                 *)

\* Lock(time.time_ns()): the readings of the clock have names
TsNames == <<"t1", "t2", "t3", "t4", "t5">>
Lock(timestamp) == Val("Lock", TsNames[timestamp], <<>>)
\* isinstance(item, Lock)
IsLock(item) == item.st = "Lock"

\* Cache.lock on the DictCache and on the FileCache
DictCacheLock(d, step, options, ts) == DictCacheSet(d, step, options, Lock(ts))
FileCacheLock(dir, step, options, ts, seed) ==
    FileCacheSet(dir, step, options, Lock(ts), TRUE, ts, seed)

\* Cache.is_locked: get with the default None, then isinstance
DictCacheIsLocked(d, step, options) ==
    Let(DictCacheGet(d, step, options, None), LAMBDA r :
        IF r.raised THEN r ELSE Ret(FALSE, PyBool(IsLock(r.val)), d))
FileCacheIsLocked(dir, step, options) ==
    Let(FileCacheGet(dir, step, options, None), LAMBDA r :
        IF r.raised THEN r ELSE FRet(FALSE, PyBool(IsLock(r.val)), dir))

\* DictCache.items(): the values of the dict, pairs of a key and an item
DictCacheItems(d) == SeqOf({d[fk] : fk \in DOMAIN d})

\* Cache.clear_locks: "self.delete(k)" passes the key alone to
\* delete(step, options), so the first Lock that is met raises TypeError
\* and nothing has been deleted
RECURSIVE clear_locks(_)
clear_locks(items) ==
    IF items = <<>> THEN FALSE
    ELSE IF IsLock(Head(items)[2]) THEN TRUE
    ELSE clear_locks(Tail(items))

DictCacheClearLocks(d) == Ret(clear_locks(DictCacheItems(d)), None, d)
FileCacheClearLocks(dir) == FRet(clear_locks(FileCacheItems(dir)), None, dir)

InitLocks ==
    /\ recipe = [g |-> MkGraph([s \in Steps |-> {}]),
                 options |-> [s \in Steps |-> <<"x">>]]
    /\ cache = <<>>
    /\ last = NoCall
    /\ fdir = {} /\ fproc = <<>> /\ fhist = {}
    /\ ddict = <<>>
    /\ cres = [n |-> 0, last |-> NoCacheCall,
               written |-> [k \in CacheKeys |-> <<>>]]

\* cache.set(step, options, item); the clock never goes back
LocksSetCall ==
    /\ cres.n < MaxOps
    /\ \E k \in CacheKeys, seed \in 1..MaxSeed :
         LET item == Item(cres.n + 1)
             fres == FileCacheSet(fdir, k.step, k.options, item, TRUE,
                                  cres.n + 1, seed)
             dres == DictCacheSet(ddict, k.step, k.options, item)
         IN Apply(CacheCall("set", k.step, k.options, item, "", fres, dres),
                  fres, dres,
                  [cres.written EXCEPT ![k] = Append(@, item)])
    /\ UNCHANGED <<execVars, fproc, fhist>>

\* cache.lock(step, options)
LockCall ==
    /\ cres.n < MaxOps
    /\ \E k \in CacheKeys, seed \in 1..MaxSeed :
         LET fres == FileCacheLock(fdir, k.step, k.options, cres.n + 1, seed)
             dres == DictCacheLock(ddict, k.step, k.options, cres.n + 1)
         IN Apply(CacheCall("lock", k.step, k.options, None, "", fres, dres),
                  fres, dres,
                  [cres.written EXCEPT ![k] = Append(@, Lock(cres.n + 1))])
    /\ UNCHANGED <<execVars, fproc, fhist>>

\* cache.is_locked(step, options)
IsLockedCall ==
    /\ cres.n < MaxOps
    /\ \E k \in CacheKeys :
         LET fres == FileCacheIsLocked(fdir, k.step, k.options)
             dres == DictCacheIsLocked(ddict, k.step, k.options)
         IN Apply(CacheCall("is_locked", k.step, k.options, None, "", fres, dres),
                  fres, dres, cres.written)
    /\ UNCHANGED <<execVars, fproc, fhist>>

\* cache.get(step, options)
LocksGetCall ==
    /\ cres.n < MaxOps
    /\ \E k \in CacheKeys :
         LET fres == FileCacheGet(fdir, k.step, k.options, None)
             dres == DictCacheGet(ddict, k.step, k.options, None)
         IN Apply(CacheCall("get", k.step, k.options, None, "", fres, dres),
                  fres, dres, cres.written)
    /\ UNCHANGED <<execVars, fproc, fhist>>

\* cache.clear_locks()
ClearLocksCall ==
    /\ cres.n < MaxOps
    /\ LET fres == FileCacheClearLocks(fdir)
           dres == DictCacheClearLocks(ddict)
       IN Apply(CacheCall("clear_locks", "", <<>>, None, "", fres, dres),
                fres, dres, cres.written)
    /\ UNCHANGED <<execVars, fproc, fhist>>

NextLocks ==
    \/ LocksSetCall
    \/ LockCall
    \/ IsLockedCall
    \/ LocksGetCall
    \/ ClearLocksCall

SpecLocks == InitLocks /\ [][NextLocks]_vars

\* the entries of the two caches that are not locks
UnlockedFiles(dir) == {f \in dir : ~ IsLock(f.payload[2])}
UnlockedDict(d) ==
    [fk \in {x \in DOMAIN d : ~ IsLock(d[x][2])} |-> d[fk]]

\* both caches answered the last call with this value, and neither raised
BothAnswered(val) ==
    /\ ~ cres.last.file.raised /\ cres.last.file.val = val
    /\ ~ cres.last.dict.raised /\ cres.last.dict.val = val

\* C39: is_locked of a written key tells whether its latest entry is a
\* lock; set on a locked key succeeds and get then returns the new value;
\* clear_locks raises nothing, removes every Lock entry and leaves every
\* other entry as it was, in the FileCache and in the DictCache
C39_LockAdvisory ==
    /\ cres.last.op = "is_locked" /\ cres.written[LastKey] # <<>>
          => BothAnswered(PyBool(IsLock(LastItem(LastKey))))
    /\ cres.last.op \in {"set", "lock"} => BothAnswered(None)
    /\ cres.last.op = "get" /\ cres.written[LastKey] # <<>>
          => BothAnswered(LastItem(LastKey))
    /\ cres.last.op = "clear_locks"
          => /\ BothAnswered(None)
             /\ fdir = UnlockedFiles(cres.last.before.file)
             /\ ddict = UnlockedDict(cres.last.before.dict)

----------------------------------------------------------------------------
(* Recipe.latest_step under the edits (SpecEdit)                           *)

\* the step a call with the default parent attaches to is ROOT or a step
\* of the graph
LatestPresent(r) == r.latest_step = ROOT \/ HasNode(r.g, r.latest_step)

\* C40: after any sequence of edits latest_step is ROOT or a step of the
\* graph, so the parent that add_step and add_option take by default is
\* never missing
C40_LatestStepPresent ==
    /\ LatestPresent(recipe)
    /\ last.op = "add_step" /\ last.parents = ParentsLatest
          => LatestPresent(last.before)
    /\ last.op = "add_option" /\ last.step = NotGiven
          => LatestPresent(last.before)

====
